---- MODULE Spec2Model ----
(***************************************************************************)
(* Model of the tabular data pipeline of the PVRSD test-data dashboard:    *)
(* DataProcessor.validate_experiment_data and                              *)
(* DataProcessor.prepare_for_database (src/utils/data_processor.py).       *)
(*                                                                         *)
(* A pandas DataFrame is a record                                          *)
(*    [columns : sequence of column labels (duplicates allowed),           *)
(*     index   : sequence of integer row labels,                           *)
(*     data    : sequence of columns, data[j][i] = cell of column j, row i]*)
(* A cell is a number, a text or not-a-number (NaN / missing).             *)
(*                                                                         *)
(* TLA+ strings are ASCII, so the three Chinese column names of the source *)
(* are written in pinyin: "dianliu" (current), "dianya" (voltage),         *)
(* "gonglv" (power).  The English names of the source ("current", "I",     *)
(* ...) are kept as they are.  Measurements are integers: on integers the  *)
(* float comparison  diff > calc * 0.05  of the source is exact and equals *)
(* 20 * diff > calc.                                                       *)
(***************************************************************************)
EXTENDS Integers, Sequences, FiniteSets, TLC

VARIABLES
    df,        \* the table instance the caller holds (validate works in place)
    given,     \* the table as it was handed to the pipeline
    calls,     \* number of validate_experiment_data calls made on df
    ret,       \* outcome of the latest validate_experiment_data call
    first,     \* outcome of the first validate_experiment_data call
    prep,      \* outcome of prepare_for_database
    again,     \* outcome of a repeated prepare_for_database(df, experiment_id)
    result,    \* outcome of the latest analysis call on df
    upload,    \* the file-upload loop of the file page: its locals and what it did
    withstand, \* the dielectric-withstand page: its session state and its writes
    normal,    \* the normal-operation page: its session state and its writes
    leakage,   \* the leakage-current page: its session state and its writes
    session    \* the login state of the session and the latest guarded call

tables == <<df, given, calls, ret, first, prep, again, result>>

pages == <<upload, withstand, normal, leakage, session>>

pages_beside_upload == <<withstand, normal, leakage, session>>

pages_beside_withstand == <<upload, normal, leakage, session>>

pages_beside_normal == <<upload, withstand, leakage, session>>

pages_beside_leakage == <<upload, withstand, normal, session>>

pages_beside_session == <<upload, withstand, normal, leakage>>

vars == <<tables, pages>>

-----------------------------------------------------------------------------
(* Bounds of the explored inputs *)

MaxRows == 2
MaxCols == 3
MaxCalls == 2
MaxClock == 2
MaxStatRows == 2
MaxSeries == 4
MaxWindow == 3
MaxFiles == 2

(* Experiment runs started in one session of a page *)
MaxRuns == 2

(* Seconds between two script runs of a running experiment *)
MaxTick == 2

-----------------------------------------------------------------------------
(* Cells *)

Num(n) == [kind |-> "num", num |-> n, str |-> <<>>]
Str(s) == [kind |-> "str", num |-> 0, str |-> s]
NaN == [kind |-> "nan", num |-> 0, str |-> <<>>]

IsNaN(c) == c.kind = "nan"
IsNum(c) == c.kind = "num"

Digits == <<"0", "1", "2", "3", "4", "5", "6", "7", "8", "9">>

IsDigit(ch) == \E d \in 1..10 : Digits[d] = ch

DigitValue(ch) == (CHOOSE d \in 1..10 : Digits[d] = ch) - 1

RECURSIVE DecimalValue(_)
DecimalValue(s) ==
    IF s = <<>> THEN 0
    ELSE 10 * DecimalValue(SubSeq(s, 1, Len(s) - 1)) + DigitValue(s[Len(s)])

AllDigits(s) == s # <<>> /\ \A k \in 1..Len(s) : IsDigit(s[k])

(* Parsing of a text cell by pd.to_numeric: an optionally signed run of    *)
(* decimal digits is a number, any other text is not.                      *)
ParseNumber(s) ==
    IF AllDigits(s) THEN Num(DecimalValue(s))
    ELSE IF s # <<>> /\ s[1] = "-" /\ AllDigits(Tail(s)) THEN Num(0 - DecimalValue(Tail(s)))
    ELSE NaN

(* Mutant: a cell that is already missing is read as 0 *)
CoerceCellFillZero(c) ==
    IF c.kind = "str" THEN ParseNumber(c.str)
    ELSE IF c.kind = "nan" THEN Num(0) ELSE c

(* pd.to_numeric(series, errors='coerce'), cell by cell *)
CoerceCell(c) ==
    IF c.kind = "str" THEN ParseNumber(c.str) ELSE c

to_numeric(col) == [i \in 1..Len(col) |-> CoerceCell(col[i])]

(* Mutant: .all() in place of .any() *)
isna_all(col) == \A i \in 1..Len(col) : IsNaN(col[i])

(* series.isna().any() *)
isna_any(col) == \E i \in 1..Len(col) : IsNaN(col[i])

(* (series < bound).any() and (series > bound).any(): NaN compares False *)
any_lt(col, bound) == \E i \in 1..Len(col) : IsNum(col[i]) /\ col[i].num < bound

any_gt(col, bound) == \E i \in 1..Len(col) : IsNum(col[i]) /\ col[i].num > bound

-----------------------------------------------------------------------------
(* Tables *)

Range(s) == {s[k] : k \in 1..Len(s)}

HasColumn(t, name) == \E j \in 1..Len(t.columns) : t.columns[j] = name

Positions(t, name) == {j \in 1..Len(t.columns) : t.columns[j] = name}

Duplicated(t, name) == Cardinality(Positions(t, name)) > 1

Pos(t, name) == CHOOSE j \in Positions(t, name) : \A k \in Positions(t, name) : j <= k

Column(t, name) == t.data[Pos(t, name)]

NRows(t) == Len(t.index)

SetColumn(t, name, col) == [t EXCEPT !.data[Pos(t, name)] = col]

(* df.rename(columns={old: new}, inplace=True): every column labelled old *)
rename(t, old, new) ==
    [t EXCEPT !.columns = [j \in 1..Len(t.columns) |->
                              IF t.columns[j] = old THEN new ELSE t.columns[j]]]

-----------------------------------------------------------------------------
(* validate_experiment_data *)

required_columns == <<"dianliu", "dianya", "gonglv">>

alt_columns ==
    [c \in Range(required_columns) |->
        CASE c = "dianliu" -> <<"current", "Current", "I", "i">>
          [] c = "dianya"  -> <<"voltage", "Voltage", "V", "v">>
          [] c = "gonglv"  -> <<"power", "Power", "P", "p">>]

CurrentMax == 1000
VoltageMax == 10000
ToleranceDivisor == 20      \* 1 / 0.05

ErrMissing(cols) == [kind |-> "missing_columns", cols |-> cols]
ErrNonNumeric(col) == [kind |-> "non_numeric", cols |-> <<col>>]
ErrConversion(col) == [kind |-> "conversion_failed", cols |-> <<col>>]
ErrCurrentNegative == [kind |-> "current_negative", cols |-> <<"dianliu">>]
ErrCurrentOver == [kind |-> "current_over", cols |-> <<"dianliu">>]
ErrVoltageNegative == [kind |-> "voltage_negative", cols |-> <<"dianya">>]
ErrVoltageOver == [kind |-> "voltage_over", cols |-> <<"dianya">>]
ErrPower == [kind |-> "power_mismatch", cols |-> <<"dianliu", "dianya", "gonglv">>]

(* Lines 41-45: the inner loop renames the first name of alt_names that is *)
(* a column, and only while cn_name is not a column.                       *)
AliasesPresent(t, cn) == {k \in 1..Len(alt_columns[cn]) : HasColumn(t, alt_columns[cn][k])}

(* Mutant: the last alias of the configured order that is a column *)
LastAlias(t, cn) ==
    alt_columns[cn][CHOOSE k \in AliasesPresent(t, cn) : \A m \in AliasesPresent(t, cn) : k >= m]

FirstAlias(t, cn) ==
    alt_columns[cn][CHOOSE k \in AliasesPresent(t, cn) : \A m \in AliasesPresent(t, cn) : k <= m]

StandardizeField(t, cn) ==
    IF HasColumn(t, cn) \/ AliasesPresent(t, cn) = {} THEN t
    ELSE rename(t, FirstAlias(t, cn), cn)

RECURSIVE StandardizeFrom(_, _)
StandardizeFrom(t, k) ==
    IF k > Len(required_columns) THEN t
    ELSE StandardizeFrom(StandardizeField(t, required_columns[k]), k + 1)

Standardize(t) == StandardizeFrom(t, 1)

(* Mutant: only the first absent column is collected *)
missing_columns_first(t) ==
    LET all == SelectSeq(required_columns, LAMBDA c : ~HasColumn(t, c))
    IN  IF all = <<>> THEN <<>> ELSE <<Head(all)>>

(* Lines 48-50 *)
missing_columns(t) == SelectSeq(required_columns, LAMBDA c : ~HasColumn(t, c))

CheckMissing(t) ==
    IF missing_columns(t) # <<>> THEN <<ErrMissing(missing_columns(t))>> ELSE <<>>

(* Lines 53-60.  df[col] of a duplicated label is a DataFrame, on which    *)
(* pd.to_numeric raises TypeError; the except clause reports it and leaves *)
(* the columns as they are.                                                *)
CoercionReport(col, coerced) ==
    IF isna_any(coerced) THEN <<ErrNonNumeric(col)>> ELSE <<>>

CoerceColumn(st, col) ==
    IF ~HasColumn(st.df, col) THEN st
    ELSE IF Duplicated(st.df, col)
         THEN [st EXCEPT !.errors = Append(@, ErrConversion(col))]
    ELSE LET coerced == to_numeric(Column(st.df, col))
         IN  [st EXCEPT !.df = SetColumn(st.df, col, coerced),
                        !.errors = @ \o CoercionReport(col, coerced)]

RECURSIVE CoerceFrom(_, _)
CoerceFrom(st, k) ==
    IF k > Len(required_columns) THEN st
    ELSE CoerceFrom(CoerceColumn(st, required_columns[k]), k + 1)

(* Lines 63-73.  On a duplicated label (df[col] < 0).any() is a Series of  *)
(* two or more booleans (or the comparison itself fails on text cells), so *)
(* the if statement raises; nothing catches it.                            *)
(* Mutant: elif in place of the second if *)
RangeReportElif(col, max, negative, over) ==
    IF any_lt(col, 0) THEN <<negative>>
    ELSE IF any_gt(col, max) THEN <<over>> ELSE <<>>

RangeReport(col, max, negative, over) ==
    (IF any_lt(col, 0) THEN <<negative>> ELSE <<>>)
        \o (IF any_gt(col, max) THEN <<over>> ELSE <<>>)

CheckRange(st, name, max, negative, over) ==
    IF st.raised \/ ~HasColumn(st.df, name) THEN st
    ELSE IF Duplicated(st.df, name) THEN [st EXCEPT !.raised = TRUE]
    ELSE [st EXCEPT !.errors = @ \o RangeReport(Column(st.df, name), max, negative, over)]

(* Lines 76-80, row by row: NaN in any operand makes the comparison False *)
Abs(x) == IF x < 0 THEN 0 - x ELSE x

(* Mutant: >= in place of > *)
RowMismatchInclusive(c, v, p) ==
    /\ IsNum(c) /\ IsNum(v) /\ IsNum(p)
    /\ ToleranceDivisor * Abs(p.num - c.num * v.num) >= c.num * v.num

RowMismatch(c, v, p) ==
    /\ IsNum(c) /\ IsNum(v) /\ IsNum(p)
    /\ ToleranceDivisor * Abs(p.num - c.num * v.num) > c.num * v.num

(* Mutant: an error only when every row is off *)
PowerMismatchEveryRow(t) ==
    \A i \in 1..NRows(t) :
        RowMismatch(Column(t, "dianliu")[i], Column(t, "dianya")[i], Column(t, "gonglv")[i])

PowerMismatch(t) ==
    \E i \in 1..NRows(t) :
        RowMismatch(Column(t, "dianliu")[i], Column(t, "dianya")[i], Column(t, "gonglv")[i])

CheckPower(st) ==
    IF st.raised \/ \E c \in Range(required_columns) : ~HasColumn(st.df, c) THEN st
    ELSE IF \E c \in Range(required_columns) : Duplicated(st.df, c)
         THEN [st EXCEPT !.raised = TRUE]
    ELSE IF PowerMismatch(st.df) THEN [st EXCEPT !.errors = Append(@, ErrPower)]
    ELSE st

(* Mutant: valid as soon as no column is missing *)
is_valid_columns_only(errors) ==
    \A k \in 1..Len(errors) : errors[k].kind # "missing_columns"

(* Line 82 *)
is_valid(errors) == Len(errors) = 0

(* The whole function: the table as it is left, whether an exception      *)
(* escaped, and the errors list as it stood when the call ended.           *)
validate_experiment_data(t) ==
    LET s1 == Standardize(t)
        s2 == [df |-> s1, errors |-> CheckMissing(s1), raised |-> FALSE]
        s3 == CoerceFrom(s2, 1)
        s4 == CheckRange(s3, "dianliu", CurrentMax, ErrCurrentNegative, ErrCurrentOver)
        s5 == CheckRange(s4, "dianya", VoltageMax, ErrVoltageNegative, ErrVoltageOver)
        s6 == CheckPower(s5)
    IN  [df |-> s6.df, raised |-> s6.raised, errors |-> s6.errors,
         valid |-> ~s6.raised /\ is_valid(s6.errors)]

-----------------------------------------------------------------------------
(* prepare_for_database *)

Raise == [kind |-> "raise", num |-> 0, str |-> <<>>]

(* row.get(name, default): the cell, the default when the label is absent; *)
(* under a duplicated label it is a Series, which float() and int() reject *)
RowGet(t, i, name, default) ==
    IF ~HasColumn(t, name) THEN default
    ELSE IF Duplicated(t, name) THEN Raise
    ELSE Column(t, name)[i]

(* float(x): a number or NaN as it is, a text parsed, ValueError otherwise *)
ToFloat(c) ==
    CASE c.kind = "num" -> c
      [] c.kind = "nan" -> c
      [] c.kind = "str" -> IF IsNum(ParseNumber(c.str)) THEN ParseNumber(c.str) ELSE Raise
      [] OTHER -> Raise

(* int(x): as float(x), but int(NaN) raises ValueError *)
ToInt(c) == IF IsNum(ToFloat(c)) THEN ToFloat(c) ELSE Raise

RECURSIVE DecimalDigits(_)
DecimalDigits(n) ==
    IF n < 10 THEN <<Digits[n + 1]>>
    ELSE Append(DecimalDigits(n \div 10), Digits[(n % 10) + 1])

(* str(x) *)
ToStr(c) ==
    CASE c.kind = "str" -> c
      [] c.kind = "nan" -> Str(<<"n", "a", "n">>)
      [] c.kind = "num" -> IF c.num < 0 THEN Str(<<"-">> \o DecimalDigits(0 - c.num))
                           ELSE Str(DecimalDigits(c.num))
      [] OTHER -> c

DefaultDeviceAddress == 1
DefaultDeviceType == Str(<<"w", "e", "i", "z", "h", "i">>)

(* idx + 1, idx being the row's index label (line 228) *)
SequenceNumber(t, i) == t.index[i] + 1

(* Mutant: temperature and humidity always given, -1 standing for absent *)
RecordSentinel(t, i, experiment_id, now) ==
    [experiment_id |-> experiment_id,
     sequence_number |-> SequenceNumber(t, i),
     current |-> ToFloat(RowGet(t, i, "dianliu", Num(0))),
     voltage |-> ToFloat(RowGet(t, i, "dianya", Num(0))),
     power |-> ToFloat(RowGet(t, i, "gonglv", Num(0))),
     device_address |-> ToInt(RowGet(t, i, "shebeidizhi", Num(DefaultDeviceAddress))),
     device_type |-> ToStr(RowGet(t, i, "shebeileixing", DefaultDeviceType)),
     timestamp |-> RowGet(t, i, "shijianchuo", Num(now)),
     temperature |-> <<ToFloat(RowGet(t, i, "wendu", Num(0 - 1)))>>,
     humidity |-> <<ToFloat(RowGet(t, i, "shidu", Num(0 - 1)))>>]

(* Lines 226-241 for the row at position i; now is the clock reading of   *)
(* datetime.now() in that iteration.                                       *)
Record(t, i, experiment_id, now) ==
    [experiment_id |-> experiment_id,
     sequence_number |-> SequenceNumber(t, i),
     current |-> ToFloat(RowGet(t, i, "dianliu", Num(0))),
     voltage |-> ToFloat(RowGet(t, i, "dianya", Num(0))),
     power |-> ToFloat(RowGet(t, i, "gonglv", Num(0))),
     device_address |-> ToInt(RowGet(t, i, "shebeidizhi", Num(DefaultDeviceAddress))),
     device_type |-> ToStr(RowGet(t, i, "shebeileixing", DefaultDeviceType)),
     timestamp |-> RowGet(t, i, "shijianchuo", Num(now)),
     temperature |-> IF HasColumn(t, "wendu") THEN <<ToFloat(RowGet(t, i, "wendu", NaN))>> ELSE <<>>,
     humidity |-> IF HasColumn(t, "shidu") THEN <<ToFloat(RowGet(t, i, "shidu", NaN))>> ELSE <<>>]

RecordRaises(r) ==
    \/ r.current = Raise \/ r.voltage = Raise \/ r.power = Raise
    \/ r.device_address = Raise
    \/ r.temperature = <<Raise>> \/ r.humidity = <<Raise>>

(* The whole function; clock[i] is the clock reading in iteration i.  An   *)
(* exception in any row ends the call without a result.                    *)
prepare_for_database(t, experiment_id, clock) ==
    LET records == [i \in 1..NRows(t) |-> Record(t, i, experiment_id, clock[i])]
        raised == \E i \in 1..NRows(t) : RecordRaises(records[i])
    IN  [raised |-> raised, records |-> IF raised THEN <<>> ELSE records]

-----------------------------------------------------------------------------
(* Floating-point results.  A finite result is an exact fraction: the cell *)
(* Num(n) when it is whole, a "frac" record num/den in lowest terms        *)
(* otherwise; a division by zero gives an infinity or NaN as numpy does.   *)

RECURSIVE GCD(_, _)
GCD(a, b) == IF b = 0 THEN a ELSE GCD(b, a % b)

Q(n, d) ==
    LET g == GCD(Abs(n), Abs(d))
        sn == IF d < 0 THEN 0 - n ELSE n
    IN  IF g = Abs(d) THEN Num(sn \div g)
        ELSE [kind |-> "frac", num |-> sn \div g, str |-> <<>>, den |-> Abs(d) \div g]

Inf(sign) == [kind |-> "inf", num |-> sign, str |-> <<>>]

IsFinite(x) == x.kind \in {"num", "frac"}

Nm(x) == x.num

Dn(x) == IF x.kind = "frac" THEN x.den ELSE 1

Sign(x) == IF Nm(x) > 0 THEN 1 ELSE IF Nm(x) < 0 THEN 0 - 1 ELSE 0

FAdd(x, y) ==
    IF IsFinite(x) /\ IsFinite(y) THEN Q(Nm(x) * Dn(y) + Nm(y) * Dn(x), Dn(x) * Dn(y))
    ELSE NaN

FSub(x, y) ==
    IF IsFinite(x) /\ IsFinite(y) THEN Q(Nm(x) * Dn(y) - Nm(y) * Dn(x), Dn(x) * Dn(y))
    ELSE NaN

(* x * y of two means; a zero keeps the sign of the other factor, as the   *)
(* float product does (the zero of a mean is +0)                           *)
FMul(x, y) ==
    IF IsFinite(x) /\ IsFinite(y) THEN Q(Nm(x) * Nm(y), Dn(x) * Dn(y))
    ELSE NaN

ZeroSign(x, y) ==
    IF (Nm(x) = 0 /\ Nm(y) < 0) \/ (Nm(y) = 0 /\ Nm(x) < 0) THEN 0 - 1 ELSE 1

(* x / y of numpy floats: x / 0 is an infinity, 0 / 0 and NaN operands NaN *)
FDivBy(x, y, zerosign) ==
    IF ~(IsFinite(x) /\ IsFinite(y)) THEN NaN
    ELSE IF Nm(y) # 0 THEN Q(Nm(x) * Dn(y), Dn(x) * Nm(y))
    ELSE IF Nm(x) = 0 THEN NaN
    ELSE Inf(Sign(x) * zerosign)

FLess(x, y) == IsFinite(x) /\ IsFinite(y) /\ Nm(x) * Dn(y) < Nm(y) * Dn(x)

(* The values of a column that are not NaN, in row order (skipna) *)
Observed(col) == SelectSeq(col, LAMBDA c : ~IsNaN(c))

(* A column holding a text cell has dtype object: the reductions raise *)
IsNumericColumn(col) == \A i \in 1..Len(col) : col[i].kind # "str"

RECURSIVE SumSeq(_)
SumSeq(xs) == IF xs = <<>> THEN Num(0) ELSE FAdd(SumSeq(Tail(xs)), Head(xs))

(* Series.sum(): NaN skipped, 0 when nothing is left *)
series_sum(col) == SumSeq(Observed(col))

(* Series.mean(): NaN skipped, NaN when nothing is left *)
series_mean(col) ==
    LET xs == Observed(col)
    IN  IF xs = <<>> THEN NaN ELSE FDivBy(SumSeq(xs), Num(Len(xs)), 1)

Sorted(xs) == SortSeq(xs, LAMBDA a, b : FLess(a, b))

(* Series.max() and Series.min() *)
series_max(col) ==
    LET xs == Sorted(Observed(col)) IN IF xs = <<>> THEN NaN ELSE xs[Len(xs)]

series_min(col) ==
    LET xs == Sorted(Observed(col)) IN IF xs = <<>> THEN NaN ELSE xs[1]

(* Series.median(): the middle value, the mean of the two middle ones *)
series_median(col) ==
    LET xs == Sorted(Observed(col))
        n == Len(xs)
    IN  IF n = 0 THEN NaN
        ELSE IF n % 2 = 1 THEN xs[(n + 1) \div 2]
        ELSE FDivBy(FAdd(xs[n \div 2], xs[n \div 2 + 1]), Num(2), 1)

(* Series.var(ddof=1): NaN below two observations *)
series_var(col) ==
    LET xs == Observed(col)
        n == Len(xs)
        m == series_mean(col)
        sq == [i \in 1..n |-> FMul(FSub(xs[i], m), FSub(xs[i], m))]
    IN  IF n < 2 THEN NaN ELSE FDivBy(SumSeq(sq), Num(n - 1), 1)

(* Series.std(): the square root of the variance, kept as a root *)
Sqrt(x) ==
    IF ~IsFinite(x) THEN x
    ELSE [kind |-> "sqrt", num |-> Nm(x), str |-> <<>>, den |-> Dn(x)]

series_std(col) == Sqrt(series_var(col))

-----------------------------------------------------------------------------
(* calculate_statistics *)

numeric_columns == <<"dianliu", "dianya", "gonglv">>

metrics == <<"pingjunzhi", "zuidazhi", "zuixiaozhi", "biaozhuncha", "zhongweishu">>

(* A reduction of df[col] under a duplicated label: a Series, not a float *)
SeriesValue == [kind |-> "series", num |-> 0, str |-> <<>>]

(* Mutant: the population standard deviation (ddof = 0) *)
MetricPopulationStd(col, metric) ==
    LET xs == Observed(col)
        m == series_mean(col)
        sq == [i \in 1..Len(xs) |-> FMul(FSub(xs[i], m), FSub(xs[i], m))]
    IN  CASE metric = "pingjunzhi" -> series_mean(col)
          [] metric = "zuidazhi" -> series_max(col)
          [] metric = "zuixiaozhi" -> series_min(col)
          [] metric = "biaozhuncha" ->
                 IF xs = <<>> THEN NaN ELSE Sqrt(FDivBy(SumSeq(sq), Num(Len(xs)), 1))
          [] metric = "zhongweishu" -> series_median(col)

(* Lines 139-143: df[col].mean(), .max(), .min(), .std(), .median() *)
Metric(col, metric) ==
    CASE metric = "pingjunzhi" -> series_mean(col)
      [] metric = "zuidazhi" -> series_max(col)
      [] metric = "zuixiaozhi" -> series_min(col)
      [] metric = "biaozhuncha" -> series_std(col)
      [] metric = "zhongweishu" -> series_median(col)

(* The key f"{col}_{metric}" is the pair <<col, metric>>; the keys of the  *)
(* two extra indicators have an empty first part.                          *)
StatKeys(t) ==
    {<<numeric_columns[j], metrics[k]>> :
        j \in {c \in 1..Len(numeric_columns) : HasColumn(t, numeric_columns[c])},
        k \in 1..Len(metrics)}
    \cup (IF HasColumn(t, "gonglv")
          THEN {<<"", "zongnengliang">>, <<"", "gonglvyinshu">>} ELSE {})

(* Line 147: df[power].sum() * 0.001 *)
TotalEnergy(t) ==
    IF Duplicated(t, "gonglv") THEN SeriesValue
    ELSE FDivBy(series_sum(Column(t, "gonglv")), Num(1000), 1)

(* Line 148: mean(power) / (mean(current) * mean(voltage)) when current    *)
(* and voltage are columns, else 0                                         *)
PowerFactor(t) ==
    IF ~(HasColumn(t, "dianliu") /\ HasColumn(t, "dianya")) THEN Num(0)
    ELSE IF \E c \in Range(numeric_columns) : Duplicated(t, c) THEN SeriesValue
    ELSE LET p == series_mean(Column(t, "gonglv"))
             c == series_mean(Column(t, "dianliu"))
             v == series_mean(Column(t, "dianya"))
         IN  FDivBy(p, FMul(c, v), ZeroSign(c, v))

(* A reduction of a column that holds text raises TypeError *)
StatisticsRaises(t) ==
    \E c \in Range(numeric_columns) :
        HasColumn(t, c) /\ \E j \in Positions(t, c) : ~IsNumericColumn(t.data[j])

(* Mutant: the mean as sum / len, which fails on a column without values *)
calculate_statistics_plain_mean(t) ==
    IF StatisticsRaises(t)
       \/ \E c \in Range(numeric_columns) : HasColumn(t, c) /\ Observed(Column(t, c)) = <<>>
    THEN [raised |-> TRUE, stats |-> <<>>]
    ELSE [raised |-> FALSE,
          stats |-> [key \in StatKeys(t) |->
                        IF key[1] = "" THEN (IF key[2] = "zongnengliang" THEN TotalEnergy(t)
                                             ELSE PowerFactor(t))
                        ELSE IF Duplicated(t, key[1]) THEN SeriesValue
                        ELSE Metric(Column(t, key[1]), key[2])]]

(* The whole function: the dictionary returned, unless a reduction raised *)
calculate_statistics(t) ==
    IF StatisticsRaises(t) THEN [raised |-> TRUE, stats |-> <<>>]
    ELSE [raised |-> FALSE,
          stats |-> [key \in StatKeys(t) |->
                        IF key[1] = "" THEN (IF key[2] = "zongnengliang" THEN TotalEnergy(t)
                                             ELSE PowerFactor(t))
                        ELSE IF Duplicated(t, key[1]) THEN SeriesValue
                        ELSE Metric(Column(t, key[1]), key[2])]]

-----------------------------------------------------------------------------
(* detect_anomalies *)

Flag(b) == [kind |-> "bool", num |-> IF b THEN 1 ELSE 0, str |-> <<>>]

(* df[name] = col: the column is replaced when the label exists, appended  *)
(* as the last column otherwise                                            *)
AssignColumn(t, name, col) ==
    IF HasColumn(t, name)
    THEN [t EXCEPT !.data = [j \in 1..Len(t.columns) |->
                                IF t.columns[j] = name THEN col ELSE t.data[j]]]
    ELSE [t EXCEPT !.columns = Append(@, name), !.data = Append(@, col)]

(* Series.quantile(k / 4): linear interpolation between the two order      *)
(* statistics around position (n - 1) * k / 4, NaN skipped                 *)
quantile(col, k) ==
    LET xs == Sorted(Observed(col))
        n == Len(xs)
        lo == ((n - 1) * k) \div 4
        fr == ((n - 1) * k) % 4
    IN  IF n = 0 THEN NaN
        ELSE IF fr = 0 THEN xs[lo + 1]
        ELSE FAdd(xs[lo + 1], FDivBy(FMul(Num(fr), FSub(xs[lo + 2], xs[lo + 1])), Num(4), 1))

(* Mutant: a value on a bound is flagged too *)
IqrFlagsInclusive(col) ==
    LET Q1 == quantile(col, 1)
        Q3 == quantile(col, 3)
        IQR == FSub(Q3, Q1)
        lower_bound == FSub(Q1, FDivBy(FMul(Num(3), IQR), Num(2), 1))
        upper_bound == FAdd(Q3, FDivBy(FMul(Num(3), IQR), Num(2), 1))
    IN  [i \in 1..Len(col) |->
            Flag(IsFinite(col[i]) /\ IsFinite(lower_bound)
                 /\ (~FLess(lower_bound, col[i]) \/ ~FLess(col[i], upper_bound)))]

(* Lines 168-173 *)
IqrFlags(col) ==
    LET Q1 == quantile(col, 1)
        Q3 == quantile(col, 3)
        IQR == FSub(Q3, Q1)
        lower_bound == FSub(Q1, FDivBy(FMul(Num(3), IQR), Num(2), 1))
        upper_bound == FAdd(Q3, FDivBy(FMul(Num(3), IQR), Num(2), 1))
    IN  [i \in 1..Len(col) |-> Flag(FLess(col[i], lower_bound) \/ FLess(upper_bound, col[i]))]

(* Mutant: a z-score that is not a number counts as exceeding 3 *)
ZScoreExceedsOrNaN(x, mean, var) ==
    LET dev == FSub(x, mean)
    IN  IF ~(IsFinite(dev) /\ IsFinite(var)) THEN TRUE
        ELSE IF Nm(var) = 0 THEN TRUE
        ELSE FLess(FMul(Num(9), var), FMul(dev, dev))

(* np.abs((x - mean) / std) > 3 with std the root of var: NaN (a missing   *)
(* operand, or 0 / 0) compares False, a non-zero deviation over 0 is inf   *)
ZScoreExceeds(x, mean, var) ==
    LET dev == FSub(x, mean)
    IN  IF ~(IsFinite(dev) /\ IsFinite(var)) THEN FALSE
        ELSE IF Nm(var) = 0 THEN Nm(dev) # 0
        ELSE FLess(FMul(Num(9), var), FMul(dev, dev))

(* Lines 177-181 *)
ZScoreFlags(col) ==
    [i \in 1..Len(col) |-> Flag(ZScoreExceeds(col[i], series_mean(col), series_var(col)))]

(* df[column] of a missing label raises KeyError; of a duplicated label it *)
(* is a frame, which cannot be assigned to one column; a reduction of a    *)
(* column holding text raises TypeError                                    *)
SeriesRaises(t, column) ==
    \/ ~HasColumn(t, column)
    \/ Duplicated(t, column)
    \/ ~IsNumericColumn(Column(t, column))

(* The whole function: the copy returned, unless an exception ended it.    *)
(* Only 'iqr' and 'zscore' have a branch.                                  *)
detect_anomalies(t, column, method) ==
    IF method \notin {"iqr", "zscore"} THEN [raised |-> FALSE, df |-> t]
    ELSE IF SeriesRaises(t, column) THEN [raised |-> TRUE, df |-> t]
    ELSE [raised |-> FALSE,
          df |-> AssignColumn(t, "yichang",
                              IF method = "iqr" THEN IqrFlags(Column(t, column))
                              ELSE ZScoreFlags(Column(t, column)))]

-----------------------------------------------------------------------------
(* filter_data *)

(* f'{column}_filtered' *)
FilteredLabel(column) ==
    CASE column = "power" -> "power_filtered"
      [] column = "gonglv" -> "gonglv_filtered"
      [] OTHER -> "_filtered"

(* Mutant: the trailing window, ending at position i *)
WindowTrailing(col, i, w) ==
    IF i - w + 1 < 1 THEN <<>> ELSE SubSeq(col, i - w + 1, i)

(* rolling(window=w, center=True): the window of position i ends           *)
(* (w - 1) // 2 rows after it; no result unless all w rows exist           *)
Window(col, i, w) ==
    LET offset == (w - 1) \div 2
        hi == i + offset
        lo == hi - w + 1
    IN  IF lo < 1 \/ hi > Len(col) THEN <<>> ELSE SubSeq(col, lo, hi)

HasNaN(xs) == \E k \in 1..Len(xs) : IsNaN(xs[k])

(* .rolling(window=w, center=True).mean(): NaN unless the window is full   *)
(* and holds no NaN (min_periods = w)                                      *)
rolling_mean(col, w) ==
    [i \in 1..Len(col) |->
        LET win == Window(col, i, w)
        IN  IF win = <<>> \/ HasNaN(win) THEN NaN ELSE series_mean(win)]

(* Mutant: the window mean in place of the window median *)
rolling_median_as_mean(col, w) ==
    [i \in 1..Len(col) |->
        LET win == Window(col, i, w)
        IN  IF win = <<>> \/ HasNaN(win) THEN NaN ELSE series_mean(win)]

(* .rolling(window=w, center=True).median() *)
rolling_median(col, w) ==
    [i \in 1..Len(col) |->
        LET win == Window(col, i, w)
        IN  IF win = <<>> \/ HasNaN(win) THEN NaN ELSE series_median(win)]

RECURSIVE Power(_, _)
Power(b, e) == IF e = 0 THEN 1 ELSE b * Power(b, e - 1)

(* Mutant: the smoothing factor 1 / w *)
RECURSIVE EwmOneOverWindow(_, _, _)
EwmOneOverWindow(col, i, w) ==
    IF i = 1 THEN [y |-> col[1], gap |-> 0]
    ELSE LET prev == EwmOneOverWindow(col, i - 1, w)
             cur == col[i]
         IN  IF IsNaN(prev.y) THEN [y |-> cur, gap |-> 0]
             ELSE IF IsNaN(cur) THEN [y |-> prev.y, gap |-> prev.gap + 1]
             ELSE [y |-> FDivBy(FAdd(FMul(Num(w - 1), prev.y), cur), Num(w), 1), gap |-> 0]

(* .ewm(span=w, adjust=False).mean() up to position i: the running value y *)
(* and the number of missing values since the last observation; with       *)
(* alpha = 2 / (w + 1) the old value weighs (1 - alpha)^(gap + 1) against  *)
(* alpha for the new one.                                                  *)
RECURSIVE Ewm(_, _, _)
Ewm(col, i, w) ==
    IF i = 1 THEN [y |-> col[1], gap |-> 0]
    ELSE LET prev == Ewm(col, i - 1, w)
             cur == col[i]
             old_wt == Power(w - 1, prev.gap + 1)
             new_wt == 2 * Power(w + 1, prev.gap)
         IN  IF IsNaN(prev.y) THEN [y |-> cur, gap |-> 0]
             ELSE IF IsNaN(cur) THEN [y |-> prev.y, gap |-> prev.gap + 1]
             ELSE [y |-> FDivBy(FAdd(FMul(Num(old_wt), prev.y), FMul(Num(new_wt), cur)),
                                Num(old_wt + new_wt), 1),
                   gap |-> 0]

ewm_mean(col, w) == [i \in 1..Len(col) |-> Ewm(col, i, w).y]

(* Mutant: no edge fill *)
fillna_none(filtered, raw) == filtered

(* Line 324, .fillna(df[column]): a missing filtered value becomes the raw *)
(* value of its row (the fill in place reaches the frame, as it does in    *)
(* pandas without copy-on-write)                                           *)
fillna(filtered, raw) ==
    [i \in 1..Len(filtered) |-> IF IsNaN(filtered[i]) THEN raw[i] ELSE filtered[i]]

(* The whole function: the copy returned, unless an exception ended it.    *)
(* A window below 1 is rejected by rolling and ewm; with a method that has *)
(* no branch the filtered column does not exist at line 324.               *)
filter_data(t, column, method, window_size) ==
    IF method \notin {"moving_average", "exponential", "median"}
    THEN IF ~HasColumn(t, FilteredLabel(column)) \/ SeriesRaises(t, column)
         THEN [raised |-> TRUE, df |-> t]
         ELSE [raised |-> FALSE,
               df |-> AssignColumn(t, FilteredLabel(column),
                                   fillna(Column(t, FilteredLabel(column)), Column(t, column)))]
    ELSE IF SeriesRaises(t, column) \/ window_size < 1 THEN [raised |-> TRUE, df |-> t]
    ELSE LET raw == Column(t, column)
             filtered == CASE method = "moving_average" -> rolling_mean(raw, window_size)
                           [] method = "exponential" -> ewm_mean(raw, window_size)
                           [] method = "median" -> rolling_median(raw, window_size)
         IN  [raised |-> FALSE,
              df |-> AssignColumn(t, FilteredLabel(column), fillna(filtered, raw))]

-----------------------------------------------------------------------------
(* Inputs *)

SeqsUpTo(S, n) == UNION {[1..k -> S] : k \in 0..n}

(* Family 1: any header row over these labels, one data row *)
InputLabels == {"dianliu", "I", "i", "dianya", "V", "gonglv", "P"}

HeaderCells == {Num(1), Str(<<"x">>)}

HeaderTable(h, cells) ==
    [columns |-> h, index |-> <<0>>, data |-> [j \in 1..Len(h) |-> <<cells[j]>>]]

(* Family 2: the three measurement columns, any rows among these, with    *)
(* the default row index, a reordered one or a filtered one.  The rows     *)
(* are <<current, voltage, power>>: currents and voltages on and around    *)
(* the limits, powers on and around the 5% tolerance, a numeric text and a *)
(* missing cell.                                                           *)
RangeRows ==
    ({Num(0 - 1), Num(0), Num(1000), Num(1001)} \X {Num(0)} \X {Num(0)})
        \cup ({Num(0)} \X {Num(0 - 1), Num(10000), Num(10001)} \X {Num(0)})

PowerRows == {Num(1)} \X {Num(20)} \X {Num(20), Num(21), Num(22)}

CoercionRows == {Str(<<"1">>), NaN} \X {Num(20)} \X {Num(20)}

DataRows == RangeRows \cup PowerRows \cup CoercionRows

IndexChoices(n) ==
    {[i \in 1..n |-> i - 1], [i \in 1..n |-> n - i], [i \in 1..n |-> i]}

DataTable(rows, ix) ==
    [columns |-> required_columns, index |-> ix,
     data |-> [j \in 1..Len(required_columns) |-> [i \in 1..Len(rows) |-> rows[i][j]]]]

(* Family 3: one consistent measurement row and any of the optional       *)
(* columns, holding a number, a missing cell or a text                     *)
OptionalLabels == <<"shebeidizhi", "shebeileixing", "shijianchuo", "wendu", "shidu">>

OptionalCells == {Num(2), NaN, Str(<<"x">>)}

OptionalTable(present, cells) ==
    LET extra == SelectSeq(OptionalLabels, LAMBDA l : l \in present)
    IN  [columns |-> required_columns \o extra, index |-> <<0>>,
         data |-> <<<<Num(1)>>, <<Num(20)>>, <<Num(20)>>>>
                     \o [j \in 1..Len(extra) |-> <<cells[extra[j]]>>]]

(* Family 4, for the statistics: any of the three measurement columns,    *)
(* any rows among these <<current, voltage, power>>, or the example rows   *)
StatRows ==
    {<<Num(1), Num(2), Num(2)>>, <<Num(2), Num(2), Num(4)>>, <<Num(3), Num(2), Num(6)>>,
     <<Num(0), Num(2), Num(0)>>, <<Num(0), Num(0), Num(5)>>, <<NaN, Num(2), Num(2)>>}

ExampleRows == {<<<<Num(1), Num(2), Num(2)>>, <<Num(2), Num(2), Num(4)>>, <<Num(3), Num(2), Num(6)>>>>}

StatTable(present, rows) ==
    LET js == SelectSeq(<<1, 2, 3>>, LAMBDA j : required_columns[j] \in present)
    IN  [columns |-> [k \in 1..Len(js) |-> required_columns[js[k]]],
         index |-> [i \in 1..Len(rows) |-> i - 1],
         data |-> [k \in 1..Len(js) |-> [i \in 1..Len(rows) |-> rows[i][js[k]]]]]

(* Family 5, for the anomaly detection and the filters: a frame read back *)
(* from the database, with a timestamp and a power column holding any of   *)
(* these values, or one of the example series                              *)
SeriesCells == {Num(1), Num(2), Num(4), NaN}

ExampleSeries ==
    {<<Num(1), Num(2), Num(3), Num(4), Num(5)>>,
     <<Num(1), Num(1), Num(1), Num(1), Num(4)>>,
     <<Num(0), Num(0), Num(0), Num(0), Num(0), Num(0), Num(0), Num(0), Num(0), Num(0), Num(100)>>}

SeriesTable(xs) ==
    [columns |-> <<"timestamp", "power">>,
     index |-> [i \in 1..Len(xs) |-> i - 1],
     data |-> <<[i \in 1..Len(xs) |-> Num(i)], xs>>]

AnomalyMethods == {"iqr", "zscore", "isolation"}

FilterMethods == {"moving_average", "exponential", "median"}

ExperimentIds == {"exp-1", "exp-2"}

(* Clock readings of one call: datetime.now() never goes back *)
Clocks(n) == {c \in [1..n -> 1..MaxClock] : \A i \in 1..n : \A k \in 1..n : i <= k => c[i] <= c[k]}

-----------------------------------------------------------------------------
(* insert_experiment_data and the backend behind it *)

(* What the backend does with client.table(...).insert(data).execute():   *)
(* the rows are stored and returned; the table is missing (the error text  *)
(* says "does not exist" or "404"); another error; or there is no client   *)
(* at all (self.client is None, an AttributeError on .table)               *)
BackendOutcomes == {"accepted", "missing_table", "error", "no_client"}

Persisted(outcome) == outcome = "accepted"

(* Lines 151-162: bool(response.data), True in the except branch when the  *)
(* error text names a missing table, False for any other exception         *)
insert_experiment_data(outcome) ==
    IF outcome = "accepted" THEN TRUE
    ELSE IF outcome = "missing_table" THEN TRUE
    ELSE FALSE

-----------------------------------------------------------------------------
(* The upload loop of the file page *)

ALLOWED_EXTENSIONS == {"xlsx", "xls", "csv", "json"}

MAX_FILE_SIZE == 52428800

(* FileHandler.validate_file, lines 35-52 *)
validate_file(file) == file.ext \in ALLOWED_EXTENSIONS /\ file.size <= MAX_FILE_SIZE

(* Uploaded files: name extension, size, whether pandas can read the       *)
(* content, and the table read from it                                     *)
GoodTable == DataTable(<<<<Num(1), Num(20), Num(20)>>>>, <<0>>)

OutOfRangeTable == DataTable(<<<<Num(0 - 1), Num(0), Num(0)>>>>, <<0>>)

TwiceCurrentTable == HeaderTable(<<"i", "i">>, <<Num(1), Num(1)>>)

UploadedFiles ==
    {[ext |-> "csv", size |-> 1, readable |-> TRUE, table |-> GoodTable],
     [ext |-> "xlsx", size |-> 1, readable |-> TRUE, table |-> GoodTable],
     [ext |-> "txt", size |-> 1, readable |-> TRUE, table |-> GoodTable],
     [ext |-> "csv", size |-> MAX_FILE_SIZE + 1, readable |-> TRUE, table |-> GoodTable],
     [ext |-> "json", size |-> 1, readable |-> FALSE, table |-> GoodTable],
     [ext |-> "csv", size |-> 1, readable |-> TRUE, table |-> OutOfRangeTable],
     [ext |-> "csv", size |-> 1, readable |-> TRUE, table |-> TwiceCurrentTable]}

(* st.session_state.user: None until a login, then the user object of the  *)
(* auth library                                                            *)
SessionUsers == {"none", "user"}

(* What the loop did with one file, in order, the value returned by        *)
(* insert_experiment_data for it and whether the backend stored the batch  *)
NoTrace == [steps |-> <<>>, inserted |-> "no", persisted |-> FALSE]

NoUpload ==
    [files |-> <<>>, user |-> "none", i |-> 0, step |-> "idle", success_count |-> 0,
     data_records |-> <<>>, trace |-> <<>>]

(* Lines 71-76 of the withstand page: the session state of a new session,  *)
(* with nothing written to the backend yet                                 *)
NoWithstand ==
    [user |-> "none", device_id |-> FALSE, test_voltage |-> 0, ramp_rate |-> 1,
     test_duration |-> 1, experiment_running |-> FALSE, experiment_id |-> 0,
     elapsed_time |-> 0, experiment_data |-> <<>>, batches |-> <<>>,
     completed |-> {}, written |-> {}]

(* The test items of the normal-operation page, in the order of the        *)
(* TEST_ITEMS dictionary (the first, second and fifth of its seven)        *)
ItemIds == <<"shutdown_response", "communication", "rated_power">>

(* Lines 134-141 of the normal-operation page: the session state of a new  *)
(* session; "none" marks a key that test_results does not hold             *)
NoNormal ==
    [user |-> "none", device_id |-> FALSE, normal_test_running |-> FALSE,
     normal_experiment_id |-> 0, test_queue |-> <<>>, current_test_item |-> "none",
     item_elapsed |-> 0,
     test_results |-> [t \in {ItemIds[k] : k \in 1..Len(ItemIds)} |-> "none"],
     finished |-> <<>>, written |-> {}]

(* Lines 75-82 of the leakage-current page: the session state of a new     *)
(* session; selected_phases is not a key of it before the first start      *)
NoLeakage ==
    [user |-> "none", device_id |-> FALSE, leakage_experiment_running |-> FALSE,
     leakage_experiment_id |-> 0, current_phase |-> 0, selected_phases |-> <<>>,
     elapsed_time |-> 0, leakage_data |-> <<>>, batches |-> <<>>,
     visited |-> <<>>, written |-> {}]

(* A key that st.session_state does not hold, the value None, and a       *)
(* user_profiles row as a dictionary                                       *)
Absent == [kind |-> "absent"]

None == [kind |-> "none"]

Dict(d) == [kind |-> "dict", dict |-> d]

(* No wrapped function has been called *)
NoCall == [wrapper |-> "none", roles |-> {}, user |-> "absent", user_profile |-> Absent,
           outcome |-> "none"]

(* A session in which app.py has not run yet *)
NoSession ==
    [authenticated |-> "absent", user |-> "absent", user_profile |-> Absent,
     call |-> NoCall]

IdlePages ==
    /\ upload = NoUpload
    /\ withstand = NoWithstand
    /\ normal = NoNormal
    /\ leakage = NoLeakage
    /\ session = NoSession

-----------------------------------------------------------------------------
(* The pipeline as a state machine *)

NoReturn == [raised |-> FALSE, valid |-> FALSE, errors |-> <<>>]

NoPrep ==
    [called |-> FALSE, raised |-> FALSE, experiment_id |-> "", records |-> <<>>, clock |-> 0]

NoAgain == [called |-> FALSE, raised |-> FALSE, records |-> <<>>]

NoResult == [op |-> "none"]

InitTable ==
    \/ \E present \in SUBSET Range(OptionalLabels) :
          \E cells \in [present -> OptionalCells] : df = OptionalTable(present, cells)
    \/ \E h \in SeqsUpTo(InputLabels, MaxCols) :
          \E cells \in [1..Len(h) -> HeaderCells] : df = HeaderTable(h, cells)
    \/ \E rows \in SeqsUpTo(DataRows, MaxRows) :
          \E ix \in IndexChoices(Len(rows)) : df = DataTable(rows, ix)

Init ==
    /\ InitTable
    /\ given = df
    /\ calls = 0
    /\ ret = NoReturn
    /\ first = NoReturn
    /\ prep = NoPrep
    /\ again = NoAgain
    /\ result = NoResult
    /\ IdlePages

(* is_valid, errors = DataProcessor.validate_experiment_data(df) *)
Validate ==
    /\ calls < MaxCalls
    /\ ~prep.called
    /\ LET r == validate_experiment_data(df)
           out == [raised |-> r.raised, valid |-> r.valid, errors |-> r.errors]
       IN  /\ df' = r.df
           /\ ret' = out
           /\ first' = IF calls = 0 THEN out ELSE first
    /\ calls' = calls + 1
    /\ UNCHANGED <<given, prep, again, result, pages>>

(* The upload loop hands df to prepare_for_database once validation has    *)
(* returned valid (it skips the file otherwise):                           *)
(* data_records = DataProcessor.prepare_for_database(df, experiment_id)    *)
Prepare ==
    /\ calls >= 1 /\ ~ret.raised /\ ret.valid
    /\ ~prep.called
    /\ \E experiment_id \in ExperimentIds, clock \in Clocks(NRows(df)) :
          LET r == prepare_for_database(df, experiment_id, clock)
          IN  prep' = [called |-> TRUE, raised |-> r.raised,
                       experiment_id |-> experiment_id, records |-> r.records,
                       clock |-> IF NRows(df) = 0 THEN 0 ELSE clock[NRows(df)]]
    /\ UNCHANGED <<df, given, calls, ret, first, again, result, pages>>

(* The same call once more, on the same table with the same experiment_id, *)
(* after the first one: the clock does not read less than it did then      *)
PrepareAgain ==
    /\ prep.called /\ ~again.called
    /\ \E clock \in {c \in Clocks(NRows(df)) : NRows(df) = 0 \/ c[1] >= prep.clock} :
          LET r == prepare_for_database(df, prep.experiment_id, clock)
          IN  again' = [called |-> TRUE, raised |-> r.raised, records |-> r.records]
    /\ UNCHANGED <<df, given, calls, ret, first, prep, result, pages>>

Next == Validate \/ Prepare \/ PrepareAgain

Spec == Init /\ [][Next]_vars

-----------------------------------------------------------------------------
(* The analysis functions, each applied to a table as a page hands it over *)

InitAnalysisTable ==
    \/ \E present \in SUBSET Range(required_columns) :
          \E rows \in SeqsUpTo(StatRows, MaxStatRows) \cup ExampleRows : df = StatTable(present, rows)
    \/ \E xs \in SeqsUpTo(SeriesCells, MaxSeries) \cup ExampleSeries : df = SeriesTable(xs)

InitAnalysis ==
    /\ InitAnalysisTable
    /\ given = df
    /\ calls = 0
    /\ ret = NoReturn
    /\ first = NoReturn
    /\ prep = NoPrep
    /\ again = NoAgain
    /\ result = NoResult
    /\ IdlePages

(* stats = DataProcessor.calculate_statistics(df) *)
Statistics ==
    /\ LET r == calculate_statistics(df)
       IN  result' = [op |-> "calculate_statistics", raised |-> r.raised, stats |-> r.stats]
    /\ UNCHANGED <<df, given, calls, ret, first, prep, again, pages>>

(* df_anomaly = DataProcessor.detect_anomalies(df, 'power'), with any of   *)
(* the methods the function documents                                      *)
Anomalies ==
    /\ \E method \in AnomalyMethods :
          LET r == detect_anomalies(df, "power", method)
          IN  result' = [op |-> "detect_anomalies", raised |-> r.raised, column |-> "power",
                         method |-> method, df |-> r.df]
    /\ UNCHANGED <<df, given, calls, ret, first, prep, again, pages>>

(* df_filtered = DataProcessor.filter_data(df, 'power', method, window_size) *)
Filter ==
    /\ \E method \in FilterMethods, window_size \in 1..MaxWindow :
          LET r == filter_data(df, "power", method, window_size)
          IN  result' = [op |-> "filter_data", raised |-> r.raised, column |-> "power",
                         method |-> method, window_size |-> window_size, df |-> r.df]
    /\ UNCHANGED <<df, given, calls, ret, first, prep, again, pages>>

NextAnalysis == Statistics \/ Anomalies \/ Filter

SpecAnalysis == InitAnalysis /\ [][NextAnalysis]_vars

-----------------------------------------------------------------------------
(* The upload loop as a state machine: one action per step of the loop     *)
(* body, for the files chosen in the uploader and an experiment selected   *)
(* in the form                                                             *)

EmptyTable == [columns |-> <<>>, index |-> <<>>, data |-> <<>>]

IdleTables ==
    /\ df = EmptyTable
    /\ given = EmptyTable
    /\ calls = 0
    /\ ret = NoReturn
    /\ first = NoReturn
    /\ prep = NoPrep
    /\ again = NoAgain
    /\ result = NoResult

InitUpload ==
    /\ IdleTables
    /\ withstand = NoWithstand
    /\ normal = NoNormal
    /\ leakage = NoLeakage
    /\ session = NoSession
    /\ \E files \in SeqsUpTo(UploadedFiles, MaxFiles) \ {<<>>}, user \in SessionUsers :
          upload = [NoUpload EXCEPT !.files = files, !.user = user, !.i = 1,
                                    !.step = "validate_file",
                                    !.trace = [k \in 1..Len(files) |-> NoTrace]]

(* The step taken is noted in the trace of the current file *)
Did(u, name) == [u EXCEPT !.trace[u.i].steps = Append(@, name)]

(* The next iteration of the for loop, or its end *)
NextFile(u) ==
    [u EXCEPT !.i = u.i + 1, !.data_records = <<>>,
              !.step = IF u.i = Len(u.files) THEN "done" ELSE "validate_file"]

(* Lines 134-137: FileHandler.validate_file(file); continue when invalid *)
ValidateFile ==
    /\ upload.step = "validate_file"
    /\ LET u == Did(upload, "validate_file")
       IN  upload' = IF validate_file(upload.files[upload.i])
                     THEN [u EXCEPT !.step = "read"]
                     ELSE NextFile(u)
    /\ UNCHANGED <<tables, pages_beside_upload>>

(* Lines 140-143: read_csv_file or read_excel_file; an exception is caught *)
(* at line 182 and the loop goes on                                        *)
ReadFile ==
    /\ upload.step = "read"
    /\ LET file == upload.files[upload.i]
           u == Did(upload, "read")
       IN  IF file.readable
           THEN /\ upload' = [u EXCEPT !.step = "validate_data"]
                /\ df' = file.table
                /\ given' = file.table
           ELSE /\ upload' = NextFile(u)
                /\ UNCHANGED <<df, given>>
    /\ UNCHANGED <<calls, ret, first, prep, again, result, pages_beside_upload>>

(* Lines 145-150: validate_experiment_data(df); continue when invalid, the *)
(* except branch when it raises                                            *)
ValidateData ==
    /\ upload.step = "validate_data"
    /\ LET r == validate_experiment_data(df)
           u == Did(upload, "validate_data")
       IN  /\ df' = r.df
           /\ ret' = [raised |-> r.raised, valid |-> r.valid, errors |-> r.errors]
           /\ upload' = IF ~r.raised /\ r.valid THEN [u EXCEPT !.step = "prepare"]
                         ELSE NextFile(u)
    /\ UNCHANGED <<given, calls, first, prep, again, result, pages_beside_upload>>

(* Line 153: data_records = prepare_for_database(df, experiment_id) *)
PrepareRecords ==
    /\ upload.step = "prepare"
    /\ \E clock \in Clocks(NRows(df)) :
          LET r == prepare_for_database(df, "exp-1", clock)
              u == Did(upload, "prepare")
          IN  upload' = IF r.raised THEN NextFile(u)
                        ELSE [u EXCEPT !.step = "insert", !.data_records = r.records]
    /\ UNCHANGED <<tables, pages_beside_upload>>

(* Line 156: supabase.insert_experiment_data(data_records); the else       *)
(* branch at line 179 when it returned False                               *)
InsertBatch ==
    /\ upload.step = "insert"
    /\ \E outcome \in BackendOutcomes :
          LET returned == insert_experiment_data(outcome)
              u == [Did(upload, "insert") EXCEPT
                       !.trace[upload.i].inserted = IF returned THEN "true" ELSE "false",
                       !.trace[upload.i].persisted = Persisted(outcome)]
          IN  upload' = IF returned THEN [u EXCEPT !.step = "upload"] ELSE NextFile(u)
    /\ UNCHANGED <<tables, pages_beside_upload>>

(* Whether building the file record raises: .get("id", "guest") on None    *)
(* is an AttributeError; on a user object it depends on the class the auth *)
(* library returns                                                         *)
UserGetRaises(user) == IF user = "none" THEN {TRUE} ELSE {TRUE, FALSE}

(* Lines 157-178: upload_file (which reports a failure by None), the file  *)
(* record, the insert into the files table (its exception is handled in    *)
(* place) and success_count += 1; an exception while the record is built   *)
(* goes to line 182                                                        *)
UploadFile ==
    /\ upload.step = "upload"
    /\ \E raises \in UserGetRaises(upload.user) :
          LET u == Did(upload, "upload")
          IN  upload' = IF raises THEN NextFile(u)
                        ELSE NextFile([Did(u, "count") EXCEPT
                                          !.success_count = u.success_count + 1])
    /\ UNCHANGED <<tables, pages_beside_upload>>

(* Lines 186-197: the loop is over: log_operation and the final message *)
FinishUpload ==
    /\ upload.step = "done"
    /\ upload' = [upload EXCEPT !.step = "finished"]
    /\ UNCHANGED <<tables, pages_beside_upload>>

NextUpload ==
    \/ ValidateFile \/ ReadFile \/ ValidateData \/ PrepareRecords
    \/ InsertBatch \/ UploadFile \/ FinishUpload

SpecUpload == InitUpload /\ [][NextUpload]_vars

-----------------------------------------------------------------------------
(* The dielectric-withstand page as a state machine: one action per script *)
(* run of the page, by the button pressed in it. Times are whole seconds.  *)

(* The sidebar's number inputs: test voltage (V), ramp rate (V/s), test    *)
(* duration (s); values whose quotient is a whole number of seconds        *)
TestVoltages == {100, 300}

RampRates == {100}

TestDurations == {2, 9}

(* Lines 249-250: ten points are sent whenever the buffer length is a       *)
(* multiple of ten                                                         *)
BatchSize == 10

InitWithstand ==
    /\ IdleTables
    /\ upload = NoUpload
    /\ normal = NoNormal
    /\ leakage = NoLeakage
    /\ session = NoSession
    /\ \E user \in SessionUsers, device_id \in BOOLEAN, test_voltage \in TestVoltages,
          ramp_rate \in RampRates, test_duration \in TestDurations :
          withstand = [NoWithstand EXCEPT !.user = user, !.device_id = device_id,
                                          !.test_voltage = test_voltage,
                                          !.ramp_rate = ramp_rate,
                                          !.test_duration = test_duration]

(* Line 218 *)
ramp_time(w) == w.test_voltage \div w.ramp_rate

(* Lines 219-228: the phase at an elapsed time; NoPhase is the local       *)
(* before any assignment                                                   *)
NoPhase == "unbound"

phase_at(w, elapsed_time) ==
    IF elapsed_time < ramp_time(w) THEN "shengya"
    ELSE IF elapsed_time < ramp_time(w) + w.test_duration THEN "baochi"
    ELSE "wancheng"

(* Lines 231-245: the point built in a script run; the leakage current is  *)
(* clamped to the limit at line 232, so it does not exceed it              *)
data_point(w) ==
    [experiment_id |-> w.experiment_id,
     sequence_number |-> Len(w.experiment_data) + 1,
     exceeds |-> FALSE]

(* The last n elements of a list: experiment_data[-n:] *)
Last(s, n) == SubSeq(s, IF Len(s) > n THEN Len(s) - n + 1 ELSE 1, Len(s))

(* The real-time block if it also sent the unsent tail when the run completes *)
RealtimeFlushing(w, elapsed_time) ==
    LET phase == phase_at(w, elapsed_time)
        data == Append(w.experiment_data, data_point(w))
    IN  [w EXCEPT !.elapsed_time = elapsed_time,
                  !.experiment_running = (phase # "wancheng"),
                  !.completed = IF phase = "wancheng" THEN @ \cup {w.experiment_id} ELSE @,
                  !.experiment_data = data,
                  !.batches = IF Len(data) % BatchSize = 0
                              THEN Append(@, Last(data, BatchSize))
                              ELSE IF phase = "wancheng"
                              THEN Append(@, Last(data, Len(data) % BatchSize))
                              ELSE @]

(* Lines 214-251: the real-time block of a script run at an elapsed time   *)
Realtime(w, elapsed_time) ==
    LET phase == phase_at(w, elapsed_time)
        data == Append(w.experiment_data, data_point(w))
    IN  [w EXCEPT !.elapsed_time = elapsed_time,
                  !.experiment_running = (phase # "wancheng"),
                  !.completed = IF phase = "wancheng" THEN @ \cup {w.experiment_id} ELSE @,
                  !.experiment_data = data,
                  !.batches = IF Len(data) % BatchSize = 0
                              THEN Append(@, Last(data, BatchSize)) ELSE @]

(* Lines 316-321 *)
Verdict(point) == IF point.exceeds THEN "fail" ELSE "pass"

(* Lines 286-329: the indicator column, with the update of the result at   *)
(* lines 324-327                                                           *)
Indicators(w, phase) ==
    IF w.experiment_running /\ w.experiment_data # <<>>
    THEN IF phase = "wancheng"
         THEN [w EXCEPT !.written = @ \cup
                  {[experiment_id |-> w.experiment_id, column |-> "result",
                    value |-> Verdict(w.experiment_data[Len(w.experiment_data)])]}]
         ELSE w
    ELSE w

(* The rest of a script run: st.rerun() ends the run where it is called,   *)
(* otherwise the script goes on to the indicator column                    *)
ScriptEnd(w, phase, rerun) == IF rerun THEN w ELSE Indicators(w, phase)

(* Lines 168-196: the start button with a device selected; both branches   *)
(* of line 181 start the run, under a fresh experiment id, and rerun. The  *)
(* operator id of line 176 is read as in the upload loop.                  *)
StartExperiment ==
    /\ ~withstand.experiment_running
    /\ withstand.experiment_id < MaxRuns
    /\ withstand.device_id
    /\ FALSE \in UserGetRaises(withstand.user)
    /\ withstand' = ScriptEnd([withstand EXCEPT !.experiment_id = @ + 1,
                                                !.experiment_running = TRUE,
                                                !.elapsed_time = 0,
                                                !.experiment_data = <<>>],
                              NoPhase, TRUE)
    /\ UNCHANGED <<tables, pages_beside_withstand>>

(* Lines 199-211: the stop button; the update of the status raises when    *)
(* there is no client, which ends the script run                           *)
StopExperiment ==
    /\ withstand.experiment_running
    /\ \E client \in BOOLEAN :
          LET w == [withstand EXCEPT !.experiment_running = FALSE]
          IN  withstand' =
                 IF client
                 THEN ScriptEnd([w EXCEPT !.written = @ \cup
                                    {[experiment_id |-> w.experiment_id,
                                      column |-> "status", value |-> "completed"]}],
                                NoPhase, FALSE)
                 ELSE w
    /\ UNCHANGED <<tables, pages_beside_withstand>>

(* Lines 213-284: a script run of a running experiment with no button      *)
(* pressed. The first one follows the start at once, the later ones the    *)
(* sleep of line 283; the rerun of line 284 ends the script run.           *)
RefreshExperiment ==
    /\ withstand.experiment_running
    /\ \E d \in (IF withstand.experiment_data = <<>> THEN 0 ELSE 1)..MaxTick :
          LET elapsed_time == withstand.elapsed_time + d
          IN  withstand' = ScriptEnd(Realtime(withstand, elapsed_time),
                                     phase_at(withstand, elapsed_time), TRUE)
    /\ UNCHANGED <<tables, pages_beside_withstand>>

NextWithstand == StartExperiment \/ StopExperiment \/ RefreshExperiment

SpecWithstand == InitWithstand /\ [][NextWithstand]_vars

-----------------------------------------------------------------------------
(* The normal-operation page as a state machine: one action per script run *)
(* of the page, by the button pressed in it. Times are whole seconds.      *)

(* Lines 76-119: TEST_ITEMS, the duration of an item in seconds *)
duration(test_id) ==
    IF test_id = "shutdown_response" THEN 10
    ELSE IF test_id = "communication" THEN 15
    ELSE 60

(* Line 81: pass_criteria of shutdown_response *)
max_time == 30

(* Line 273: the response time is known from this item time on *)
SignalTime == 5

(* Lines 177-180: the test items ticked in the sidebar, in TEST_ITEMS order *)
Selections ==
    {SelectSeq(ItemIds, LAMBDA t : t \in chosen) :
        chosen \in SUBSET {ItemIds[k] : k \in 1..Len(ItemIds)}}

(* st.session_state.get("user", {}): the key is absent when the page is    *)
(* opened without app.py having run, None before a login                   *)
NormalUsers == SessionUsers \cup {"absent"}

(* Line 218: .get("id", "guest") on the default {}, on None or on the user *)
(* object                                                                  *)
OperatorGetRaises(user) == IF user = "absent" THEN {FALSE} ELSE UserGetRaises(user)

(* supabase_client.py lines 115-132: whether insert_experiment returns an  *)
(* experiment (a stored one, or the mock one when the table is missing)    *)
insert_experiment(outcome) == outcome \in {"accepted", "missing_table"}

(* Line 277: np.random.normal(15, 3), sampled *)
RawResponseTimes == {0, 15, 40}

(* The response time if it were stored as drawn *)
clamp_nothing(response_time) == response_time

(* Line 278: the response time is clamped to [5, 25] *)
clamp(response_time) ==
    LET capped == IF response_time < 25 THEN response_time ELSE 25
    IN  IF capped > 5 THEN capped ELSE 5

(* Lines 281-286 *)
shutdown_result(response_time) ==
    IF response_time <= max_time THEN "passed" ELSE "failed"

(* Lines 400-401: all(...) over every value test_results holds *)
final_result(test_results) ==
    IF \A t \in DOMAIN test_results : test_results[t] \in {"none", "passed"}
    THEN "pass" ELSE "fail"

(* The clock readings explored for an item: its start, the signal time and *)
(* its duration                                                            *)
ItemTimes(test_id) == {0, SignalTime, duration(test_id)}

(* The position of an item in a list: list.index(item) *)
IndexOf(list, item) == CHOOSE k \in 1..Len(list) : list[k] = item

InitNormal ==
    /\ IdleTables
    /\ upload = NoUpload
    /\ withstand = NoWithstand
    /\ leakage = NoLeakage
    /\ session = NoSession
    /\ \E user \in NormalUsers, device_id \in BOOLEAN :
          normal = [NoNormal EXCEPT !.user = user, !.device_id = device_id]

(* Lines 211-232: the start button with a selection and a device; the run  *)
(* starts when insert_experiment returned an experiment. test_results is   *)
(* left as it is.                                                          *)
StartTest ==
    /\ ~normal.normal_test_running
    /\ normal.normal_experiment_id < MaxRuns
    /\ normal.device_id
    /\ FALSE \in OperatorGetRaises(normal.user)
    /\ \E selected_tests \in Selections \ {<<>>}, outcome \in BackendOutcomes :
          /\ insert_experiment(outcome)
          /\ normal' = [normal EXCEPT !.normal_experiment_id = @ + 1,
                                      !.normal_test_running = TRUE,
                                      !.test_queue = selected_tests,
                                      !.current_test_item = selected_tests[1],
                                      !.item_elapsed = 0,
                                      !.finished = <<>>]
    /\ UNCHANGED <<tables, pages_beside_normal>>

(* Lines 244-251: the stop button; the update raises when the backend does *)
(* not take it, the state is changed before                                *)
StopTest ==
    /\ normal.normal_test_running
    /\ \E outcome \in BackendOutcomes :
          normal' = [normal EXCEPT
                        !.normal_test_running = FALSE,
                        !.written = IF Persisted(outcome)
                                    THEN @ \cup {[experiment_id |-> normal.normal_experiment_id,
                                                  status |-> "cancelled", result |-> "none"]}
                                    ELSE @]
    /\ UNCHANGED <<tables, pages_beside_normal>>

(* Lines 269-291: the current item's simulation at an item time; only the  *)
(* shutdown response test stores a result itself                           *)
Simulate(test_results, test_id, item_elapsed, raw) ==
    IF test_id = "shutdown_response" /\ item_elapsed >= SignalTime
    THEN [test_results EXCEPT ![test_id] = shutdown_result(clamp(raw))]
    ELSE test_results

(* Lines 254-416: a script run of a running test with no button pressed,   *)
(* at a clock reading not before the last one: the simulation, then, when  *)
(* the item's duration is over, its default result and the move to the     *)
(* next item or the end of the run with the update of the experiment       *)
RefreshTest ==
    /\ normal.normal_test_running
    /\ \E item_elapsed \in ItemTimes(normal.current_test_item),
          raw \in RawResponseTimes, outcome \in BackendOutcomes :
          /\ item_elapsed >= normal.item_elapsed
          /\ LET test_id == normal.current_test_item
                 simulated == Simulate(normal.test_results, test_id, item_elapsed, raw)
                 results == IF simulated[test_id] = "none"
                            THEN [simulated EXCEPT ![test_id] = "passed"]
                            ELSE simulated
                 current_idx == IndexOf(normal.test_queue, test_id)
             IN  normal' =
                    IF item_elapsed < duration(test_id)
                    THEN [normal EXCEPT !.item_elapsed = item_elapsed,
                                        !.test_results = simulated]
                    ELSE IF current_idx < Len(normal.test_queue)
                    THEN [normal EXCEPT !.test_results = results,
                                        !.finished = Append(@, test_id),
                                        !.current_test_item = normal.test_queue[current_idx + 1],
                                        !.item_elapsed = 0]
                    ELSE [normal EXCEPT
                             !.item_elapsed = item_elapsed,
                             !.test_results = results,
                             !.finished = Append(@, test_id),
                             !.normal_test_running = FALSE,
                             !.written = IF Persisted(outcome)
                                         THEN @ \cup {[experiment_id |-> normal.normal_experiment_id,
                                                       status |-> "completed",
                                                       result |-> final_result(results)]}
                                         ELSE @]
    /\ UNCHANGED <<tables, pages_beside_normal>>

(* Lines 449-478: the button under the summary clears test_results *)
NewTest ==
    /\ ~normal.normal_test_running
    /\ \E t \in DOMAIN normal.test_results : normal.test_results[t] # "none"
    /\ normal' = [normal EXCEPT !.test_results = NoNormal.test_results]
    /\ UNCHANGED <<tables, pages_beside_normal>>

NextNormal == StartTest \/ StopTest \/ RefreshTest \/ NewTest

SpecNormal == InitNormal /\ [][NextNormal]_vars

-----------------------------------------------------------------------------
(* The leakage-current page as a state machine: one action per script run  *)
(* of the page, by the button pressed in it. Times are whole seconds.      *)

(* Lines 85-91: test_phases (the first, second and fourth of its five) *)
test_phases == <<"changwen", "gaowen", "gaoshi">>

(* Lines 86-90: the duration of every phase in seconds *)
PhaseDuration == 30

(* Lines 291-292: five points are sent whenever the buffer length is a     *)
(* multiple of five                                                        *)
LeakageBatchSize == 5

(* Lines 166-170: the phases ticked in the sidebar, in test_phases order *)
PhaseSelections ==
    {SelectSeq(test_phases, LAMBDA ph : ph \in chosen) :
        chosen \in SUBSET {test_phases[k] : k \in 1..Len(test_phases)}}

(* Line 205: st.session_state.user.id raises on None (main is wrapped by   *)
(* require_auth, lines 60-61, which stops the script on None before)       *)
UserIdRaises(user) == user = "none"

(* The clock readings explored within a phase: its first second, its       *)
(* duration and the second after                                           *)
PhaseTimes == {1, PhaseDuration, PhaseDuration + 1}

InitLeakage ==
    /\ IdleTables
    /\ upload = NoUpload
    /\ withstand = NoWithstand
    /\ normal = NoNormal
    /\ session = NoSession
    /\ \E user \in SessionUsers, device_id \in BOOLEAN :
          leakage = [NoLeakage EXCEPT !.user = user, !.device_id = device_id]

(* Lines 198-220: the start button; the run starts with a device, at least *)
(* one phase and an experiment returned by insert_experiment               *)
StartLeakage ==
    /\ ~leakage.leakage_experiment_running
    /\ leakage.leakage_experiment_id < MaxRuns
    /\ \E selected_phases \in PhaseSelections, outcome \in BackendOutcomes :
          /\ leakage.device_id /\ selected_phases # <<>>
          /\ ~UserIdRaises(leakage.user)
          /\ insert_experiment(outcome)
          /\ leakage' = [leakage EXCEPT !.leakage_experiment_id = @ + 1,
                                        !.leakage_experiment_running = TRUE,
                                        !.current_phase = 0,
                                        !.elapsed_time = 0,
                                        !.leakage_data = <<>>,
                                        !.selected_phases = selected_phases,
                                        !.visited = <<0>>]
    /\ UNCHANGED <<tables, pages_beside_leakage>>

(* Lines 224-231: the stop button; the update raises when the backend does *)
(* not take it, the state is changed before                                *)
StopLeakage ==
    /\ leakage.leakage_experiment_running
    /\ \E outcome \in BackendOutcomes :
          leakage' = [leakage EXCEPT
                         !.leakage_experiment_running = FALSE,
                         !.written = IF Persisted(outcome)
                                     THEN @ \cup {[experiment_id |-> leakage.leakage_experiment_id,
                                                   status |-> "completed", result |-> "none"]}
                                     ELSE @]
    /\ UNCHANGED <<tables, pages_beside_leakage>>

(* The index if a timeout moved it two phases on *)
next_phase_skipping(current_phase) == current_phase + 2

(* Line 240 *)
next_phase(current_phase) == current_phase + 1

(* Lines 275-292: the point of a script run is appended and a full batch   *)
(* is sent                                                                 *)
Measure(l, elapsed_time) ==
    LET data == Append(l.leakage_data,
                       [experiment_id |-> l.leakage_experiment_id,
                        sequence_number |-> Len(l.leakage_data) + 1])
    IN  [l EXCEPT !.elapsed_time = elapsed_time,
                  !.leakage_data = data,
                  !.batches = IF Len(data) % LeakageBatchSize = 0
                              THEN Append(@, Last(data, LeakageBatchSize)) ELSE @]

(* Lines 234-323: a script run of a running experiment with no button      *)
(* pressed, at a clock reading after the last one. When the phase's time   *)
(* is over the index advances: to the next phase with a rerun, or past the *)
(* last one, which ends the run; the script run then ends in the update    *)
(* or in st.progress, whose argument is above 1. Otherwise a point is      *)
(* measured.                                                               *)
RefreshLeakage ==
    /\ leakage.leakage_experiment_running
    /\ \E elapsed_time \in PhaseTimes, outcome \in BackendOutcomes :
          /\ elapsed_time > leakage.elapsed_time
          /\ leakage' =
                IF elapsed_time > PhaseDuration
                THEN LET index == next_phase(leakage.current_phase)
                     IN  IF index < Len(leakage.selected_phases)
                         THEN [leakage EXCEPT !.current_phase = index,
                                              !.elapsed_time = 0,
                                              !.visited = Append(@, index)]
                         ELSE [leakage EXCEPT
                                  !.current_phase = index,
                                  !.elapsed_time = elapsed_time,
                                  !.leakage_experiment_running = FALSE,
                                  !.written = IF Persisted(outcome)
                                              THEN @ \cup {[experiment_id |-> leakage.leakage_experiment_id,
                                                            status |-> "completed",
                                                            result |-> "pass"]}
                                              ELSE @]
                ELSE Measure(leakage, elapsed_time)
    /\ UNCHANGED <<tables, pages_beside_leakage>>

NextLeakage == StartLeakage \/ StopLeakage \/ RefreshLeakage

SpecLeakage == InitLeakage /\ [][NextLeakage]_vars

-----------------------------------------------------------------------------
(* Login, logout and the access-control decorators as a state machine *)

Roles == {"viewer", "engineer", "admin"}

(* What get_user_profile returns: None, or the row of the user, whose role *)
(* column may be missing                                                   *)
Profiles == {None, Dict([full_name |-> "name"])} \cup {Dict([role |-> r]) : r \in Roles}

(* dict.get("role", "viewer") *)
GetRole(dict) == IF "role" \in DOMAIN dict THEN dict.role ELSE "viewer"

(* supabase_client.py lines 283-291: the wrapper of require_auth runs the  *)
(* body ("body") or stops the script ("stopped")                           *)
require_auth(user) ==
    IF user = "absent" \/ user = "none" THEN "stopped" ELSE "body"

(* The wrapper of require_role if any profile with a role passed *)
require_role_any(roles, user_profile) ==
    IF user_profile.kind = "absent" THEN "stopped"
    ELSE IF user_profile.kind = "none" THEN "raised"
    ELSE "body"

(* supabase_client.py lines 294-309: the wrapper of require_role(roles);   *)
(* .get on None raises ("raised")                                          *)
require_role(roles, user_profile) ==
    IF user_profile.kind = "absent" THEN "stopped"
    ELSE IF user_profile.kind = "none" THEN "raised"
    ELSE IF GetRole(user_profile.dict) \notin roles THEN "stopped"
    ELSE "body"

InitSession ==
    /\ IdleTables
    /\ upload = NoUpload
    /\ withstand = NoWithstand
    /\ normal = NoNormal
    /\ leakage = NoLeakage
    /\ session = NoSession

(* app.py lines 146-154: init_session_state in the first script run of     *)
(* app.py in the session                                                   *)
OpenApp ==
    /\ session.authenticated = "absent"
    /\ session' = [session EXCEPT !.authenticated = "False", !.user = "none",
                                  !.user_profile = None]
    /\ UNCHANGED <<tables, pages_beside_session>>

(* app.py lines 177-189: the login form submitted with both fields and     *)
(* sign_in succeeding; the profile is what get_user_profile returns        *)
Login ==
    /\ session.authenticated = "False"
    /\ \E filled \in BOOLEAN, success \in BOOLEAN, profile \in Profiles :
          /\ filled /\ success
          /\ session' = [session EXCEPT !.authenticated = "True", !.user = "user",
                                        !.user_profile = profile]
    /\ UNCHANGED <<tables, pages_beside_session>>

(* app.py lines 234-239: the logout button of the main page *)
Logout ==
    /\ session.authenticated = "True"
    /\ session' = [session EXCEPT !.authenticated = "False", !.user = "none",
                                  !.user_profile = None]
    /\ UNCHANGED <<tables, pages_beside_session>>

(* A call of a function wrapped by require_auth *)
CallAuthenticated ==
    /\ session' = [session EXCEPT !.call =
                      [wrapper |-> "require_auth", roles |-> {}, user |-> session.user,
                       user_profile |-> session.user_profile,
                       outcome |-> require_auth(session.user)]]
    /\ UNCHANGED <<tables, pages_beside_session>>

(* A call of a function wrapped by require_role(roles) *)
CallWithRole ==
    /\ \E roles \in SUBSET Roles :
          session' = [session EXCEPT !.call =
                         [wrapper |-> "require_role", roles |-> roles, user |-> session.user,
                          user_profile |-> session.user_profile,
                          outcome |-> require_role(roles, session.user_profile)]]
    /\ UNCHANGED <<tables, pages_beside_session>>

NextSession == OpenApp \/ Login \/ Logout \/ CallAuthenticated \/ CallWithRole

SpecSession == InitSession /\ [][NextSession]_vars

-----------------------------------------------------------------------------
(* Vocabulary of the properties, stated on the table as it was given       *)

(* The labels under which a field may appear: canonical name and aliases *)
NamesOf(cn) == {cn} \cup Range(alt_columns[cn])

FieldColumns(t, cn) == {j \in 1..Len(t.columns) : t.columns[j] \in NamesOf(cn)}

FieldPresent(t, cn) == FieldColumns(t, cn) # {}

(* A measurement table maps field names to values: no label occurs twice *)
UniqueLabels(t) ==
    \A j \in 1..Len(t.columns) : \A k \in 1..Len(t.columns) :
        t.columns[j] = t.columns[k] => j = k

AllNumeric(t) ==
    \A j \in 1..Len(t.columns) : \A i \in 1..NRows(t) : IsNum(t.data[j][i])

WithinLimits(t, cn, max) ==
    \A j \in FieldColumns(t, cn) : \A i \in 1..NRows(t) :
        t.data[j][i].num >= 0 /\ t.data[j][i].num <= max

Within5Percent(c, v, p) == ToleranceDivisor * Abs(p - c * v) <= c * v

PowerConsistent(t) ==
    \A jc \in FieldColumns(t, "dianliu") : \A jv \in FieldColumns(t, "dianya") :
        \A jp \in FieldColumns(t, "gonglv") : \A i \in 1..NRows(t) :
            Within5Percent(t.data[jc][i].num, t.data[jv][i].num, t.data[jp][i].num)

ValidTable(t) ==
    /\ UniqueLabels(t)
    /\ \A cn \in Range(required_columns) : FieldPresent(t, cn)
    /\ AllNumeric(t)
    /\ WithinLimits(t, "dianliu", CurrentMax)
    /\ WithinLimits(t, "dianya", VoltageMax)
    /\ PowerConsistent(t)

Count(errors, e) == Cardinality({k \in 1..Len(errors) : errors[k] = e})

CountKind(errors, kind) == Cardinality({k \in 1..Len(errors) : errors[k].kind = kind})

-----------------------------------------------------------------------------
(* C1: a table in which current, voltage and power are all present under   *)
(* canonical or alias names, every value is a number, current is in        *)
(* [0,1000], voltage in [0,10000] and every row has power within 5% of     *)
(* current*voltage, is returned valid = true with an empty error list.     *)
C1_ValidTablePasses ==
    (calls >= 1 /\ ValidTable(given))
        => (~first.raised /\ first.valid /\ first.errors = <<>>)

(* C1 witness: a validated two-row table that meets the precondition with  *)
(* a row whose power is off current*voltage by exactly 5%.                 *)
C1_Witness ==
    /\ calls >= 1 /\ ValidTable(given) /\ first.valid
    /\ NRows(given) >= 2
    /\ \E i \in 1..NRows(given) :
          /\ given.data[1][i].num * given.data[2][i].num = 20
          /\ given.data[3][i].num = 21

(* C2: validate_experiment_data never raises, whatever the table: every    *)
(* problem is an entry of the returned error list.                         *)
C2_NeverRaises == calls >= 1 => ~ret.raised

(* C3: no core operation changes the name or the values of a column of the *)
(* table instance it was given; only new derived columns are appended.     *)
C3_InputColumnsUntouched ==
    /\ Len(df.columns) >= Len(given.columns)
    /\ \A j \in 1..Len(given.columns) :
          df.columns[j] = given.columns[j] /\ df.data[j] = given.data[j]

(* C4: prepare_for_database returns one record per row, in row order, each *)
(* with the given experiment_id, the i-th with sequence_number = i, also   *)
(* for tables whose row index is not the default one.                      *)
C4_SequenceNumberIsPosition ==
    (prep.called /\ ~prep.raised) =>
        /\ Len(prep.records) = NRows(df)
        /\ \A i \in 1..Len(prep.records) :
              /\ prep.records[i].experiment_id = prep.experiment_id
              /\ prep.records[i].sequence_number = i

(* C5: a second validate_experiment_data on the table left by the first    *)
(* call ends as the first did: the same error list and the same flag.      *)
C5_SecondCallSameErrors ==
    calls >= 2 =>
        (ret.errors = first.errors /\ ret.valid = first.valid /\ ret.raised = first.raised)

(* C5 witness: validated twice, the first call having renamed or coerced   *)
(* a column and reported errors.                                           *)
C5_Witness ==
    calls >= 2 /\ df # given /\ Len(first.errors) >= 2 /\ ~first.raised

(* C6: when required fields are absent after aliasing, the error list has  *)
(* exactly one missing-columns entry, naming every absent field and no     *)
(* present one; when none is absent it has no such entry.                  *)
AbsentFields(t) == {cn \in Range(required_columns) : ~FieldPresent(t, cn)}

C6_OneMissingColumnsEntry ==
    calls >= 1 =>
        IF AbsentFields(given) = {}
        THEN CountKind(first.errors, "missing_columns") = 0
        ELSE /\ CountKind(first.errors, "missing_columns") = 1
             /\ \A k \in 1..Len(first.errors) :
                   first.errors[k].kind = "missing_columns"
                       => /\ Range(first.errors[k].cols) = AbsentFields(given)
                          /\ Len(first.errors[k].cols) = Cardinality(AbsentFields(given))

(* C6 witness: a validated table that lacks voltage only *)
C6_Witness ==
    /\ calls >= 1 /\ AbsentFields(given) = {"dianya"}
    /\ Count(first.errors, ErrMissing(<<"dianya">>)) = 1

(* C7: the valid flag returned is true exactly when the returned error     *)
(* list is empty.                                                          *)
C7_ValidIffNoErrors ==
    (calls >= 1 /\ ~ret.raised) => (ret.valid <=> ret.errors = <<>>)

(* C7 witness: a call that returned errors, none of them about columns *)
C7_Witness ==
    /\ calls >= 1 /\ ~ret.raised /\ ~ret.valid
    /\ ret.errors # <<>> /\ CountKind(ret.errors, "missing_columns") = 0

(* C8: for each field whose canonical name is not a column, the first      *)
(* alias of the configured order that is a column is renamed to the        *)
(* canonical name and no other label changes; when the canonical name is a *)
(* column no alias of the field is renamed; no column is added or dropped. *)
IsFirstAliasOf(t, label, cn) ==
    \E k \in 1..Len(alt_columns[cn]) :
        /\ alt_columns[cn][k] = label
        /\ \A m \in 1..(k - 1) : ~HasColumn(t, alt_columns[cn][m])

ExpectedLabel(t, j) ==
    LET label == t.columns[j]
        fields == {cn \in Range(required_columns) :
                      ~HasColumn(t, cn) /\ IsFirstAliasOf(t, label, cn)}
    IN  IF fields = {} THEN label ELSE CHOOSE cn \in fields : TRUE

C8_FirstAliasRenamed ==
    calls >= 1 =>
        /\ Len(df.columns) = Len(given.columns)
        /\ Len(df.data) = Len(given.data)
        /\ \A j \in 1..Len(given.columns) : df.columns[j] = ExpectedLabel(given, j)

(* C8 witness: "i" stands before "I" in the table and there is no current  *)
(* column; "I", the earlier alias of the configuration, was renamed and    *)
(* "i" was kept.                                                           *)
C8_Witness ==
    /\ calls >= 1
    /\ \E j \in 1..Len(given.columns) : \E k \in 1..Len(given.columns) :
          /\ j < k /\ given.columns[j] = "i" /\ given.columns[k] = "I"
          /\ df.columns[j] = "i" /\ df.columns[k] = "dianliu"

(* C9 as claimed, for labels carried by one column: exactly one            *)
(* non-numeric-data error naming a present required column if at least one *)
(* of its rows failed numeric coercion, and none if no row failed.         *)
FailedCoercion(c) == c.kind = "str" /\ ~IsNum(ParseNumber(c.str))

GivenColumn(col) == given.data[Pos(df, col)]

C9_ErrorIffCoercionFailed ==
    calls >= 1 =>
        \A col \in Range(required_columns) :
            (HasColumn(df, col) /\ ~Duplicated(df, col)) =>
                Count(first.errors, ErrNonNumeric(col)) =
                    IF \E i \in 1..NRows(given) : FailedCoercion(GivenColumn(col)[i])
                    THEN 1 ELSE 0

(* C9 amended: for a required label carried by one column, exactly one     *)
(* non-numeric-data error naming it iff at least one of its rows is        *)
(* not-a-number after coercion (the value failed coercion or was already   *)
(* missing), however many rows are; for a required label carried by        *)
(* several columns no coercion takes place: no non-numeric-data error and  *)
(* exactly one conversion-failure error; none of either for an absent one. *)
NaNAfterCoercion(c) == c.kind = "nan" \/ FailedCoercion(c)

C9_ErrorIffNaNAfterCoercion ==
    calls >= 1 =>
        \A col \in Range(required_columns) :
            LET nonnum == Count(first.errors, ErrNonNumeric(col))
                conv == Count(first.errors, ErrConversion(col))
            IN  IF ~HasColumn(df, col) THEN nonnum = 0 /\ conv = 0
                ELSE IF Duplicated(df, col) THEN nonnum = 0 /\ conv = 1
                ELSE /\ conv = 0
                     /\ nonnum = IF \E i \in 1..NRows(given) :
                                        NaNAfterCoercion(GivenColumn(col)[i])
                                 THEN 1 ELSE 0

(* C9 witness: a current column of two rows, one a number and one missing, *)
(* reported once.                                                          *)
C9_Witness ==
    /\ calls >= 1 /\ HasColumn(df, "dianliu") /\ ~Duplicated(df, "dianliu")
    /\ NRows(given) >= 2
    /\ \E i \in 1..NRows(given) : IsNaN(GivenColumn("dianliu")[i])
    /\ \E i \in 1..NRows(given) : IsNum(GivenColumn("dianliu")[i])
    /\ Count(first.errors, ErrNonNumeric("dianliu")) = 1

(* C10: in the returned error list the negative-current error appears iff  *)
(* some current value is < 0, the over-range-current error iff some is     *)
(* > 1000, the negative-voltage error iff some voltage is < 0, the         *)
(* over-range-voltage error iff some is > 10000; each at most once and     *)
(* each decided on its own.                                                *)
ValuesOf(col) ==
    IF ~HasColumn(df, col) THEN {}
    ELSE {CoerceCell(GivenColumn(col)[i]).num :
              i \in {k \in 1..NRows(given) : IsNum(CoerceCell(GivenColumn(col)[k]))}}

Once(errors, e, condition) == Count(errors, e) = IF condition THEN 1 ELSE 0

C10_RangeErrors ==
    (calls >= 1 /\ ~first.raised) =>
        /\ Once(first.errors, ErrCurrentNegative, \E x \in ValuesOf("dianliu") : x < 0)
        /\ Once(first.errors, ErrCurrentOver, \E x \in ValuesOf("dianliu") : x > 1000)
        /\ Once(first.errors, ErrVoltageNegative, \E x \in ValuesOf("dianya") : x < 0)
        /\ Once(first.errors, ErrVoltageOver, \E x \in ValuesOf("dianya") : x > 10000)

(* C10 witness: a current column with a negative and an over-range value: *)
(* both current errors, once each, in a call that returned.                *)
C10_Witness ==
    /\ calls >= 1 /\ ~first.raised
    /\ Count(first.errors, ErrCurrentNegative) = 1
    /\ Count(first.errors, ErrCurrentOver) = 1

(* C11: when current, voltage and power are all present, the returned      *)
(* error list has exactly one power-inconsistency error iff at least one   *)
(* row has |power - current*voltage| > 5% of current*voltage, however many *)
(* rows are off; when one of the three is absent it has none.              *)
OffRows(t) ==
    {i \in {k \in 1..NRows(t) : \A cn \in Range(required_columns) : HasColumn(df, cn)} :
        LET c == CoerceCell(GivenColumn("dianliu")[i])
            v == CoerceCell(GivenColumn("dianya")[i])
            p == CoerceCell(GivenColumn("gonglv")[i])
        IN  /\ IsNum(c) /\ IsNum(v) /\ IsNum(p)
            /\ ~Within5Percent(c.num, v.num, p.num)}

C11_OnePowerError ==
    (calls >= 1 /\ ~first.raised) =>
        IF \A cn \in Range(required_columns) : FieldPresent(given, cn)
        THEN Once(first.errors, ErrPower, OffRows(given) # {})
        ELSE Count(first.errors, ErrPower) = 0

(* C11 witness: two rows, both off by more than 5%, reported once *)
C11_Witness ==
    /\ calls >= 1 /\ ~first.raised
    /\ Cardinality(OffRows(given)) = 2
    /\ Count(first.errors, ErrPower) = 1

(* C17: prepare_for_database is a function of (table, experiment_id)       *)
(* alone: two calls with equal arguments return equal record sequences,    *)
(* including when the table has no timestamp column.                       *)
C17_EqualArgumentsEqualRecords ==
    (prep.called /\ again.called) =>
        (again.raised = prep.raised /\ again.records = prep.records)

(* C18: in every record of prepare_for_database the temperature key is     *)
(* present iff the table has a temperature column and the humidity key iff *)
(* it has a humidity column; device_address and device_type always have a  *)
(* value, 1 and the unknown marker when the table lacks those columns.     *)
C18_OptionalKeys ==
    (prep.called /\ ~prep.raised) =>
        \A i \in 1..Len(prep.records) :
            LET r == prep.records[i]
            IN  /\ Len(r.temperature) = (IF HasColumn(df, "wendu") THEN 1 ELSE 0)
                /\ Len(r.humidity) = (IF HasColumn(df, "shidu") THEN 1 ELSE 0)
                /\ r.device_address.kind = "num" /\ r.device_type.kind = "str"
                /\ ~HasColumn(df, "shebeidizhi") => r.device_address = Num(1)
                /\ ~HasColumn(df, "shebeileixing")
                      => r.device_type = Str(<<"w", "e", "i", "z", "h", "i">>)

(* C18 witness: records of a table with a humidity column and without      *)
(* temperature, device address and device type columns                     *)
C18_Witness ==
    /\ prep.called /\ ~prep.raised /\ Len(prep.records) >= 1
    /\ HasColumn(df, "shidu") /\ ~HasColumn(df, "wendu")
    /\ ~HasColumn(df, "shebeidizhi") /\ ~HasColumn(df, "shebeileixing")
    /\ prep.records[1].humidity = <<Num(2)>> /\ prep.records[1].temperature = <<>>

(* C19: calculate_statistics returns, for each of current, voltage and     *)
(* power that is a column, exactly the five metrics mean, max, min, sample *)
(* standard deviation and median of the column, and no metric for an       *)
(* absent column; current = [1,2,3] gives mean 2, max 3, min 1.            *)
RECURSIVE Total(_)
Total(ns) == IF ns = <<>> THEN 0 ELSE Head(ns) + Total(Tail(ns))

Numbers(col) == [i \in 1..Len(col) |-> col[i].num]

IsMeanOf(m, ns) == IsFinite(m) /\ Nm(m) * Len(ns) = Dn(m) * Total(ns)

IsMaxOf(m, ns) == m.kind = "num" /\ m.num \in Range(ns) /\ \A x \in Range(ns) : x <= m.num

IsMinOf(m, ns) == m.kind = "num" /\ m.num \in Range(ns) /\ \A x \in Range(ns) : m.num <= x

(* sd^2 * (n - 1) is the sum of the squared deviations from the mean *)
IsSampleStdOf(sd, ns) ==
    LET n == Len(ns)
        sq == [i \in 1..n |-> (n * ns[i] - Total(ns)) * (n * ns[i] - Total(ns))]
    IN  sd.kind = "sqrt" /\ sd.num * (n - 1) * n * n = sd.den * Total(sq)

(* Half of the values lie on each side, midway between its neighbours *)
IsMedianOf(m, ns) ==
    LET below == {i \in 1..Len(ns) : ns[i] * Dn(m) <= Nm(m)}
        above == {i \in 1..Len(ns) : ns[i] * Dn(m) >= Nm(m)}
    IN  /\ IsFinite(m)
        /\ 2 * Cardinality(below) >= Len(ns) /\ 2 * Cardinality(above) >= Len(ns)
        /\ \E a \in below : \E b \in above :
              /\ \A i \in below : ns[i] <= ns[a]
              /\ \A i \in above : ns[b] <= ns[i]
              /\ 2 * Nm(m) = Dn(m) * (ns[a] + ns[b])

MetricKeys(stats) == {key \in DOMAIN stats : key[1] # ""}

C19_FiveMetricsPerColumn ==
    (result.op = "calculate_statistics" /\ ~result.raised /\ UniqueLabels(df)) =>
        /\ MetricKeys(result.stats) =
              {c \in Range(required_columns) : HasColumn(df, c)}
                  \X {"pingjunzhi", "zuidazhi", "zuixiaozhi", "biaozhuncha", "zhongweishu"}
        /\ \A c \in {x \in Range(required_columns) : HasColumn(df, x)} :
              LET col == Column(df, c)
              IN  (NRows(df) >= 2 /\ \A i \in 1..NRows(df) : IsNum(col[i])) =>
                      /\ IsMeanOf(result.stats[<<c, "pingjunzhi">>], Numbers(col))
                      /\ IsMaxOf(result.stats[<<c, "zuidazhi">>], Numbers(col))
                      /\ IsMinOf(result.stats[<<c, "zuixiaozhi">>], Numbers(col))
                      /\ IsSampleStdOf(result.stats[<<c, "biaozhuncha">>], Numbers(col))
                      /\ IsMedianOf(result.stats[<<c, "zhongweishu">>], Numbers(col))
        /\ (HasColumn(df, "dianliu") /\ Column(df, "dianliu") = <<Num(1), Num(2), Num(3)>>) =>
              /\ result.stats[<<"dianliu", "pingjunzhi">>] = Num(2)
              /\ result.stats[<<"dianliu", "zuidazhi">>] = Num(3)
              /\ result.stats[<<"dianliu", "zuixiaozhi">>] = Num(1)

(* C19 witness: the statistics of a table whose only column is current,    *)
(* with the values 1, 2, 3                                                 *)
C19_Witness ==
    /\ result.op = "calculate_statistics" /\ ~result.raised
    /\ df.columns = <<"dianliu">> /\ df.data = <<<<Num(1), Num(2), Num(3)>>>>
    /\ result.stats[<<"dianliu", "pingjunzhi">>] = Num(2)
    /\ result.stats[<<"dianliu", "biaozhuncha">>].num = 1

(* C20: calculate_statistics on a table with zero rows, whichever of the   *)
(* three columns it has, returns a summary without raising.                *)
C20_ZeroRowsNoRaise ==
    (result.op = "calculate_statistics" /\ NRows(df) = 0) => ~result.raised

(* C20 witness: the summary of a zero-row table with all three columns *)
C20_Witness ==
    /\ result.op = "calculate_statistics" /\ NRows(df) = 0 /\ ~result.raised
    /\ df.columns = required_columns
    /\ IsNaN(result.stats[<<"gonglv", "pingjunzhi">>])

(* C12: with current, voltage and power all present the power factor is    *)
(* mean(power) / (mean(current) * mean(voltage)), and exactly 0 whenever   *)
(* that denominator is 0: never an infinity or not-a-number.               *)
C12_PowerFactorZeroDenominator ==
    (/\ result.op = "calculate_statistics" /\ ~result.raised /\ UniqueLabels(df)
     /\ \A c \in Range(required_columns) : HasColumn(df, c)
     /\ \A c \in Range(required_columns) : Observed(Column(df, c)) # <<>>) =>
        LET p == series_mean(Column(df, "gonglv"))
            d == FMul(series_mean(Column(df, "dianliu")), series_mean(Column(df, "dianya")))
            pf == result.stats[<<"", "gonglvyinshu">>]
        IN  IF d = Num(0) THEN pf = Num(0)
            ELSE IsFinite(pf) /\ Nm(pf) * Dn(p) * Nm(d) = Nm(p) * Dn(pf) * Dn(d)

(* C13: detect_anomalies with method 'zscore' flags no row, and does not   *)
(* fail, when the standard deviation of the column is 0 (all values the    *)
(* same) or undefined (a single row).                                      *)
SameValues(col) ==
    \A i \in 1..Len(col) : \A k \in 1..Len(col) :
        (IsNum(col[i]) /\ IsNum(col[k])) => col[i] = col[k]

C13_ZeroDeviationFlagsNothing ==
    (/\ result.op = "detect_anomalies" /\ result.method = "zscore"
     /\ HasColumn(df, result.column) /\ SameValues(Column(df, result.column))) =>
        /\ ~result.raised
        /\ HasColumn(result.df, "yichang")
        /\ \A i \in 1..NRows(result.df) : Column(result.df, "yichang")[i] = Flag(FALSE)

(* C13 witness: the z-score flags of three rows holding the same number *)
C13_Witness ==
    /\ result.op = "detect_anomalies" /\ result.method = "zscore" /\ ~result.raised
    /\ HasColumn(df, "power") /\ Column(df, "power") = <<Num(2), Num(2), Num(2)>>
    /\ Column(result.df, "yichang") = <<Flag(FALSE), Flag(FALSE), Flag(FALSE)>>

(* C14: for every table, column and method, detect_anomalies returns a     *)
(* table with exactly one more column than the input, that column boolean; *)
(* every input column is in the output unchanged, with the same rows in    *)
(* the same order, and the input table is not modified.                    *)
C14_OneMoreBooleanColumn ==
    result.op = "detect_anomalies" =>
        /\ ~result.raised
        /\ df = given
        /\ result.df.index = df.index
        /\ Len(result.df.columns) = Len(df.columns) + 1
        /\ \A j \in 1..Len(df.columns) :
              result.df.columns[j] = df.columns[j] /\ result.df.data[j] = df.data[j]
        /\ \A i \in 1..NRows(df) : result.df.data[Len(result.df.columns)][i].kind = "bool"

(* C15: filter_data with method 'moving_average' and window w gives the    *)
(* mean of the w-wide centered window at every position where the window   *)
(* fits inside the series and the raw value at every edge position where   *)
(* it does not; no not-a-number is left when the raw column has none;      *)
(* window 3 on [1,2,3,4,5] gives 3 at index 2 and 1 and 5 at the ends.     *)
CenteredFrom(i, w) == i - (w - 1 - (w - 1) \div 2)

CenteredTo(i, w) == i + (w - 1) \div 2

Fits(i, w, n) == CenteredFrom(i, w) >= 1 /\ CenteredTo(i, w) <= n

C15_MovingAverage ==
    (/\ result.op = "filter_data" /\ result.method = "moving_average"
     /\ HasColumn(df, result.column)) =>
        /\ ~result.raised
        /\ HasColumn(result.df, "power_filtered")
        /\ LET raw == Column(df, result.column)
               w == result.window_size
               filtered == Column(result.df, "power_filtered")
           IN  /\ Len(filtered) = Len(raw)
               /\ \A i \in 1..Len(raw) :
                     IF ~Fits(i, w, Len(raw)) THEN filtered[i] = raw[i]
                     ELSE LET win == SubSeq(raw, CenteredFrom(i, w), CenteredTo(i, w))
                          IN  (\A k \in 1..w : IsNum(win[k])) => IsMeanOf(filtered[i], Numbers(win))
               /\ (\A i \in 1..Len(raw) : IsNum(raw[i]))
                     => \A i \in 1..Len(raw) : IsFinite(filtered[i])
               /\ (raw = <<Num(1), Num(2), Num(3), Num(4), Num(5)>> /\ w = 3)
                     => filtered[3] = Num(3) /\ filtered[1] = Num(1) /\ filtered[5] = Num(5)

(* C15 witness: window 3 over four rows: the raw value at both ends, the   *)
(* window means 7/3 and 10/3 inside                                        *)
C15_Witness ==
    /\ result.op = "filter_data" /\ result.method = "moving_average" /\ ~result.raised
    /\ result.window_size = 3
    /\ HasColumn(df, "power") /\ Column(df, "power") = <<Num(1), Num(2), Num(4), Num(4)>>
    /\ Column(result.df, "power_filtered") = <<Num(1), Q(7, 3), Q(10, 3), Num(4)>>

(* C16: filter_data with a window larger than the number of rows, for any  *)
(* of the three methods and also on a zero-row table, does not fail: the   *)
(* table returned has the filtered column and, for moving_average and      *)
(* median, the filtered column equals the raw column at every row.         *)
C16_WindowLargerThanSeries ==
    (/\ result.op = "filter_data" /\ HasColumn(df, result.column)
     /\ result.window_size > NRows(df)) =>
        /\ ~result.raised
        /\ HasColumn(result.df, "power_filtered")
        /\ Len(Column(result.df, "power_filtered")) = NRows(df)
        /\ result.method \in {"moving_average", "median"}
              => Column(result.df, "power_filtered") = Column(df, result.column)

(* C16 witness: a median filter of window 3 over two rows *)
C16_Witness ==
    /\ result.op = "filter_data" /\ result.method = "median" /\ ~result.raised
    /\ result.window_size = 3
    /\ HasColumn(df, "power") /\ Column(df, "power") = <<Num(4), Num(1)>>
    /\ Column(result.df, "power_filtered") = <<Num(4), Num(1)>>

(* C21: detect_anomalies with method 'iqr' flags a row iff its value is    *)
(* strictly below Q1 - 1.5*IQR or strictly above Q3 + 1.5*IQR, Q1, Q3 and  *)
(* IQR = Q3 - Q1 being computed once over the whole column; a value        *)
(* exactly on a bound is not flagged.                                      *)
Ascending(ns) == SortSeq(ns, LAMBDA a, b : a < b)

(* Four times the quartile k/4 of the values, between the two neighbours   *)
(* of position (n - 1) * k / 4                                             *)
Quartile4(ns, k) ==
    LET xs == Ascending(ns)
        lo == ((Len(xs) - 1) * k) \div 4
        fr == ((Len(xs) - 1) * k) % 4
    IN  IF fr = 0 THEN 4 * xs[lo + 1]
        ELSE 4 * xs[lo + 1] + fr * (xs[lo + 2] - xs[lo + 1])

(* 8*x < 8*(Q1 - 1.5*IQR) or 8*x > 8*(Q3 + 1.5*IQR) *)
OutsideFences(x, ns) ==
    LET q1 == Quartile4(ns, 1)
        q3 == Quartile4(ns, 3)
    IN  8 * x < 5 * q1 - 3 * q3 \/ 8 * x > 5 * q3 - 3 * q1

C21_IqrFences ==
    (/\ result.op = "detect_anomalies" /\ result.method = "iqr"
     /\ HasColumn(df, result.column)) =>
        /\ ~result.raised
        /\ HasColumn(result.df, "yichang")
        /\ LET col == Column(df, result.column)
               ns == Numbers(Observed(col))
               flags == Column(result.df, "yichang")
           IN  /\ Len(flags) = Len(col)
               /\ \A i \in 1..Len(col) :
                     flags[i] = Flag(IsNum(col[i]) /\ OutsideFences(col[i].num, ns))

(* C21 witness: four values on both fences (IQR = 0), not flagged, and one *)
(* above, flagged                                                          *)
C21_Witness ==
    /\ result.op = "detect_anomalies" /\ result.method = "iqr" /\ ~result.raised
    /\ HasColumn(df, "power")
    /\ Column(df, "power") = <<Num(1), Num(1), Num(1), Num(1), Num(4)>>
    /\ Column(result.df, "yichang")
          = <<Flag(FALSE), Flag(FALSE), Flag(FALSE), Flag(FALSE), Flag(TRUE)>>

(* C22: filter_data with method 'exponential' and window w gives           *)
(* y[0] = x[0] and y[t] = a*x[t] + (1-a)*y[t-1] with a = 2/(w+1) at every  *)
(* row of a column of numbers; the raw column is unchanged.                *)
(* (w + 1) * y = 2 * x + (w - 1) * before *)
IsSmoothed(y, x, before, w) ==
    /\ IsFinite(y) /\ IsFinite(before)
    /\ Nm(y) * (w + 1) * Dn(before) = Dn(y) * (2 * x * Dn(before) + (w - 1) * Nm(before))

C22_Exponential ==
    (/\ result.op = "filter_data" /\ result.method = "exponential"
     /\ HasColumn(df, result.column)) =>
        /\ ~result.raised
        /\ df = given
        /\ HasColumn(result.df, "power_filtered")
        /\ Column(result.df, result.column) = Column(df, result.column)
        /\ LET x == Column(df, result.column)
               y == Column(result.df, "power_filtered")
           IN  /\ Len(y) = Len(x)
               /\ (\A t \in 1..Len(x) : IsNum(x[t])) =>
                     \A t \in 1..Len(x) :
                         IF t = 1 THEN y[t] = x[t]
                         ELSE IsSmoothed(y[t], x[t].num, y[t - 1], result.window_size)

(* C22 witness: window 3 (a = 1/2) over 1, 2, 4, 4 *)
C22_Witness ==
    /\ result.op = "filter_data" /\ result.method = "exponential" /\ ~result.raised
    /\ result.window_size = 3
    /\ HasColumn(df, "power") /\ Column(df, "power") = <<Num(1), Num(2), Num(4), Num(4)>>
    /\ Column(result.df, "power_filtered") = <<Num(1), Q(3, 2), Q(11, 4), Q(27, 8)>>

(* C23: filter_data with method 'median' and window w gives the median of  *)
(* the w-wide centered window wherever the window fits inside the series   *)
(* and the raw value at every edge position where it does not.             *)
C23_Median ==
    (/\ result.op = "filter_data" /\ result.method = "median"
     /\ HasColumn(df, result.column)) =>
        /\ ~result.raised
        /\ HasColumn(result.df, "power_filtered")
        /\ LET raw == Column(df, result.column)
               w == result.window_size
               filtered == Column(result.df, "power_filtered")
           IN  /\ Len(filtered) = Len(raw)
               /\ \A i \in 1..Len(raw) :
                     IF ~Fits(i, w, Len(raw)) THEN filtered[i] = raw[i]
                     ELSE LET win == SubSeq(raw, CenteredFrom(i, w), CenteredTo(i, w))
                          IN  (\A k \in 1..w : IsNum(win[k]))
                                  => IsMedianOf(filtered[i], Numbers(win))

(* C23 witness: window 3 over 4, 1, 2, 4: the raw value at both ends, the  *)
(* window medians 2 and 2 inside                                           *)
C23_Witness ==
    /\ result.op = "filter_data" /\ result.method = "median" /\ ~result.raised
    /\ result.window_size = 3
    /\ HasColumn(df, "power") /\ Column(df, "power") = <<Num(4), Num(1), Num(2), Num(4)>>
    /\ Column(result.df, "power_filtered") = <<Num(4), Num(2), Num(2), Num(4)>>

(* C24: insert_experiment_data returns true only if the backend accepted   *)
(* the insert; every backend failure, a missing table and an absent client *)
(* included, is reported as failure.                                       *)
C24_TrueOnlyIfPersisted ==
    \A k \in 1..Len(upload.trace) :
        upload.trace[k].inserted = "true" => upload.trace[k].persisted

(* C25: in the upload loop the steps of a file occur only in the order     *)
(* file validation, read, data validation, record construction, batch      *)
(* insert, file upload; a file that fails validate_file or                 *)
(* validate_experiment_data has no records passed to                       *)
(* insert_experiment_data; the file is uploaded only after the insert      *)
(* returned true; a failure on one file does not stop the later files; and *)
(* success_count is the number of files whose batch insert returned true.  *)
StepOrder == <<"validate_file", "read", "validate_data", "prepare", "insert", "upload", "count">>

InOrder(steps) == Len(steps) <= Len(StepOrder) /\ steps = SubSeq(StepOrder, 1, Len(steps))

Took(k, name) == name \in Range(upload.trace[k].steps)

StepsInOrder == \A k \in 1..Len(upload.trace) : InOrder(upload.trace[k].steps)

InsertOnlyValidated ==
    \A k \in 1..Len(upload.trace) :
        Took(k, "insert") =>
            /\ validate_file(upload.files[k])
            /\ validate_experiment_data(upload.files[k].table).valid

UploadOnlyAfterInsertTrue ==
    \A k \in 1..Len(upload.trace) : Took(k, "upload") => upload.trace[k].inserted = "true"

EveryFileProcessed ==
    upload.step \in {"done", "finished"} =>
        \A k \in 1..Len(upload.trace) : Took(k, "validate_file")

SuccessCountIsInsertedTrue ==
    upload.step \in {"done", "finished"} =>
        upload.success_count
            = Cardinality({k \in 1..Len(upload.trace) : upload.trace[k].inserted = "true"})

C25_UploadLoopOrder ==
    /\ StepsInOrder
    /\ InsertOnlyValidated
    /\ UploadOnlyAfterInsertTrue
    /\ EveryFileProcessed
    /\ SuccessCountIsInsertedTrue

-----------------------------------------------------------------------------
(* The dielectric-withstand page *)

(* C26: once a run has reached the completed phase (elapsed time >= ramp   *)
(* time + test duration), a pass/fail result is written to the experiments *)
(* table for its experiment_id.                                            *)
C26_ResultWrittenOnceCompleted ==
    \A id \in withstand.completed :
        \E write \in withstand.written :
            /\ write.experiment_id = id
            /\ write.column = "result"
            /\ write.value \in {"pass", "fail"}

(* The points passed to insert_experiment_data so far, in order *)
RECURSIVE Flatten(_)
Flatten(batches) ==
    IF batches = <<>> THEN <<>> ELSE Head(batches) \o Flatten(Tail(batches))

SentPoints == Flatten(withstand.batches)

SentOfRun == SelectSeq(SentPoints, LAMBDA p : p.experiment_id = withstand.experiment_id)

NumberedFromOne ==
    \A k \in 1..Len(withstand.experiment_data) :
        /\ withstand.experiment_data[k].sequence_number = k
        /\ withstand.experiment_data[k].experiment_id = withstand.experiment_id

SentAtMostOnce ==
    \A j, k \in 1..Len(SentPoints) : SentPoints[j] = SentPoints[k] => j = k

SentExactlyFullBatches ==
    LET n == Len(withstand.experiment_data)
    IN  SentOfRun = SubSeq(withstand.experiment_data, 1, BatchSize * (n \div BatchSize))

(* C27: the points of experiment_data are numbered 1..n and belong to the  *)
(* current run (the buffer starts empty at each start), no point is passed *)
(* to insert_experiment_data twice, and the points passed for the run are  *)
(* exactly its first 10 * floor(n / 10) points, running, stopped or        *)
(* completed.                                                              *)
C27_SequenceAndBatches ==
    /\ NumberedFromOne
    /\ SentAtMostOnce
    /\ SentExactlyFullBatches

(* A second run that ended with more than ten points, after a first run    *)
(* that sent a batch too: one batch each, the tail unsent                  *)
C27_Witness ==
    /\ withstand.experiment_id = 2
    /\ ~withstand.experiment_running
    /\ Len(withstand.experiment_data) > BatchSize
    /\ Len(withstand.batches) = 2
    /\ Len(SentOfRun) = BatchSize

-----------------------------------------------------------------------------
(* The normal-operation page *)

(* The items finished in the run are the head of test_queue, the current   *)
(* item is the one after them, and a completed run has finished them all   *)
OneAtATimeInQueueOrder ==
    /\ Len(normal.finished) <= Len(normal.test_queue)
    /\ normal.finished = SubSeq(normal.test_queue, 1, Len(normal.finished))
    /\ \A j, k \in 1..Len(normal.finished) :
          normal.finished[j] = normal.finished[k] => j = k
    /\ normal.normal_test_running =>
          /\ Len(normal.finished) < Len(normal.test_queue)
          /\ normal.current_test_item = normal.test_queue[Len(normal.finished) + 1]
    /\ \A write \in normal.written :
          (write.status = "completed" /\ write.experiment_id = normal.normal_experiment_id)
             => normal.finished = normal.test_queue

(* The step that writes the overall result of a run writes "pass" exactly  *)
(* when every item of the run's queue has the result "passed"              *)
OverallResultOfSelectedItems ==
    \A write \in normal'.written \ normal.written :
        write.status = "completed" =>
            /\ write.experiment_id = normal.normal_experiment_id
            /\ write.result \in {"pass", "fail"}
            /\ write.result = "pass" <=>
                  \A k \in 1..Len(normal.test_queue) :
                      normal'.test_results[normal.test_queue[k]] = "passed"

(* C28: the items of a run are executed one at a time in test_queue order, *)
(* each once, and the overall result written when the last one finishes is *)
(* "pass" iff every item selected for the run has the result "passed",     *)
(* whatever earlier runs left in test_results.                             *)
C28_QueueOrderAndOverallResult ==
    /\ []OneAtATimeInQueueOrder
    /\ [][OverallResultOfSelectedItems]_vars

(* A second run has completed and its result is written while test_results *)
(* still holds the result of an item that only an earlier run executed     *)
C28_Witness ==
    /\ normal.normal_experiment_id = 2
    /\ ~normal.normal_test_running
    /\ \E write \in normal.written :
          write.status = "completed" /\ write.experiment_id = 2
    /\ \E t \in DOMAIN normal.test_results :
          /\ normal.test_results[t] # "none"
          /\ \A k \in 1..Len(normal.test_queue) : normal.test_queue[k] # t

-----------------------------------------------------------------------------
(* The leakage-current page *)

RunningWithinPhases ==
    leakage.leakage_experiment_running =>
        /\ leakage.selected_phases # <<>>
        /\ 0 <= leakage.current_phase
        /\ leakage.current_phase < Len(leakage.selected_phases)

(* The indices taken by current_phase in the run are 0, 1, 2, ... *)
PhasesInOrder ==
    /\ \A k \in 1..Len(leakage.visited) : leakage.visited[k] = k - 1
    /\ leakage.leakage_experiment_running =>
          leakage.visited[Len(leakage.visited)] = leakage.current_phase

RunEnds == leakage.leakage_experiment_running /\ ~leakage'.leakage_experiment_running

AdvancesPastLast ==
    /\ leakage.leakage_experiment_running
    /\ leakage'.current_phase = leakage.current_phase + 1
    /\ leakage'.current_phase >= Len(leakage.selected_phases)

(* C29 as stated: while running the index is within the non-empty list of  *)
(* selected phases, the phases are visited in increasing order without     *)
(* skipping, and the run ends exactly in the steps in which the index      *)
(* advances past the last selected phase.                                  *)
C29_EndsOnlyPastLastPhase ==
    /\ []RunningWithinPhases
    /\ []PhasesInOrder
    /\ [][RunEnds <=> AdvancesPastLast]_vars

(* C29, amended: the same, with the run ending exactly in the steps in     *)
(* which the index advances past the last selected phase or the stop       *)
(* button is pressed.                                                      *)
C29_EndsPastLastPhaseOrOnStop ==
    /\ []RunningWithinPhases
    /\ []PhasesInOrder
    /\ [][RunEnds <=> (AdvancesPastLast \/ StopLeakage)]_vars

(* A second run was stopped in its second phase of three, after a first    *)
(* run that went past its last phase and had its result written            *)
C29_Witness ==
    /\ leakage.leakage_experiment_id = 2
    /\ ~leakage.leakage_experiment_running
    /\ Len(leakage.selected_phases) = 3
    /\ leakage.current_phase = 1
    /\ leakage.visited = <<0, 1>>
    /\ \E write \in leakage.written : write.experiment_id = 1 /\ write.result = "pass"

-----------------------------------------------------------------------------
(* Access control *)

RoleBodyOnlyWithRole ==
    (session.call.wrapper = "require_role" /\ session.call.outcome = "body") =>
        /\ session.call.user_profile.kind = "dict"
        /\ GetRole(session.call.user_profile.dict) \in session.call.roles

AuthBodyOnlyWithUser ==
    (session.call.wrapper = "require_auth" /\ session.call.outcome = "body") =>
        session.call.user = "user"

AuthenticatedHasUser == session.authenticated = "True" => session.user = "user"

LogoutResetsTogether ==
    (session.authenticated = "True" /\ session'.authenticated # "True") =>
        /\ session'.authenticated = "False"
        /\ session'.user = "none"
        /\ session'.user_profile = None

(* C30: the body of a function wrapped by require_role(roles) runs only    *)
(* with a user_profile whose role (viewer when missing) is in roles, the   *)
(* body of one wrapped by require_auth only with a non-null user; over any *)
(* logins and logouts authenticated implies a non-null user, and a logout  *)
(* resets authenticated, user and user_profile in one step.                *)
C30_AccessControl ==
    /\ [](RoleBodyOnlyWithRole /\ AuthBodyOnlyWithUser /\ AuthenticatedHasUser)
    /\ [][LogoutResetsTogether]_vars

(* After a login whose profile has no role column, a function that admits  *)
(* viewers but not admins ran its body; the user has logged out since      *)
C30_Witness ==
    /\ session.call.wrapper = "require_role"
    /\ session.call.outcome = "body"
    /\ session.call.roles = {"viewer", "engineer"}
    /\ session.call.user_profile = Dict([full_name |-> "name"])
    /\ session.authenticated = "False"
    /\ session.user = "none"

====
